---- MODULE Spec2Model ----
(***************************************************************************)
(* Model of the agent-wallet and spot-order pipeline of invest-simply:     *)
(* the edge functions spot-buy, agent-wallet and sync-hyperliquid working  *)
(* on one profile row, the wallet_transactions table and the exchange.     *)
(*                                                                         *)
(* Every edge-function invocation is request-scoped: it owns a slot with   *)
(* its local variables and a program counter.  A step of a slot is the     *)
(* code between two awaits on the store or on the exchange, so two         *)
(* invocations interleave exactly where the code suspends.                 *)
(***************************************************************************)
EXTENDS Integers, Sequences, FiniteSets, TLC

(* ------------------------------ bounds --------------------------------- *)

\* Private keys that exist in one run (key 1 is the one present at the start,
\* the others are produced by generatePrivateKey).
MaxKeys == 3

\* Orders the exchange fills in one run.
MaxOrders == 1
\* Transfers (deposits, withdrawals) in the exchange's history.
MaxTransfers == 1
\* The last millisecond of a run (the first one is 1).
MaxTime == 2
\* Rows of dca_executions after which no further sweep starts.
MaxExecutions == 2
\* the longest private-key text given to the byte-level cipher
MaxSecretLen == 2
\* the number of entries of the exchange's universe listing
MaxUniverse == 2

\* Invocations that run concurrently.
Slots == {1, 2}

(* ------------------------- program constants --------------------------- *)

\* null of a profile column / absent JSON field.
NULL == 0

\* The text decryptLegacyKey returns when the stored text is no legacy
\* encoding of a key but still base64-decodes to bytes holding a ':'.
Junk == -1

\* The profile every invocation of a run works on.
ProfileId == "p1"

\* Deno.env ENCRYPTION_KEY of the running deployment.
MasterKey == "mk-current"

\* spot-buy: retries of the transaction insert.
RecordAttempts == 3

\* fetchWithRetry: MAX_RETRIES.
MAX_RETRIES == 3

\* getSpotAssetInfo: szDecimals when the metadata has none.
DefaultSzDecimals == 4

(* ------------------------------ numbers -------------------------------- *)

RECURSIVE Pow10(_)
Pow10(k) == IF k = 0 THEN 1 ELSE 10 * Pow10(k - 1)

\* Sizes are kept as integers counting units of 10^-DefaultSzDecimals, the
\* precision the code falls back to when the exchange omits szDecimals and
\* the finest one among the assets explored here.
SizeUnit == Pow10(DefaultSzDecimals)

\* Math.floor of the non-negative rational n/d.
\* Rounding up instead of down: what Math.floor is compared with.
Ceiling(n, d) == (n + d - 1) \div d

Floor(n, d) == n \div d

\* Number.prototype.toFixed rounds n/d to the nearest integer (half up).
RoundDiv(n, d) == (2 * n + d) \div (2 * d)

(* ------------------------------ secrets -------------------------------- *)

Keys == 1 .. MaxKeys

\* privateKeyToAccount(key).address: one address per key.
AddressOf(k) == 100 + k

\* privateKeyToAccount throws on a text that is no 32-byte hex key.
IsValidKey(x) == x \in Keys

NoCipher == [scheme |-> "none", secret |-> NULL, mk |-> "", ctx |-> "", colon |-> FALSE]

\* encryptPrivateKey: AES-256-GCM under SHA-256(ENCRYPTION_KEY + profileId),
\* hex(iv + ciphertext).  colon: whether the hex text, read as base64, decodes
\* to bytes holding ':' (it depends on the random iv; it is only looked at
\* when the AES decryption fails, which a text written under MasterKey never
\* does, so it is fixed here).
encryptPrivateKey(privateKey, profileId) ==
    [scheme |-> "aes", secret |-> privateKey, mk |-> MasterKey, ctx |-> profileId,
     colon |-> FALSE]

\* privy-auth's encryptPrivateKey: btoa(salt + ":" + privateKey).
encryptLegacy(privateKey) ==
    [scheme |-> "legacy", secret |-> privateKey, mk |-> "", ctx |-> "", colon |-> TRUE]

\* decryptPrivateKey: null unless the text is hex, and the GCM tag verifies
\* under the key derived from the current ENCRYPTION_KEY and this profileId.
decryptPrivateKey(encrypted, profileId) ==
    IF encrypted.scheme = "aes" /\ encrypted.mk = MasterKey /\ encrypted.ctx = profileId
    THEN encrypted.secret
    ELSE NULL

\* decryptLegacyKey: atob, split(":"), everything after the first ':'.
\* A hex text has an even length and only base64 characters, so atob accepts
\* it; the result is non-null whenever the decoded bytes hold a ':'.
decryptLegacyKey(encrypted) ==
    CASE encrypted.scheme = "legacy" -> encrypted.secret
      [] encrypted.scheme = "aes" /\ encrypted.colon -> Junk
      [] OTHER -> NULL

\* A decode that asks the legacy decoder first: what the two-step decode is
\* compared with.
DecodeLegacyFirst(encrypted, profileId) ==
    IF decryptLegacyKey(encrypted) # NULL
    THEN [key |-> decryptLegacyKey(encrypted), legacy |-> TRUE, decoder |-> "legacy"]
    ELSE [key |-> decryptPrivateKey(encrypted, profileId), legacy |-> FALSE,
          decoder |-> "legacy"]

\* The two-step decode both handlers use: AES first, legacy second.  legacy:
\* whether the text is to be re-encrypted; decoder: the last decoder asked.
DecodeStored(encrypted, profileId) ==
    IF decryptPrivateKey(encrypted, profileId) # NULL
    THEN [key |-> decryptPrivateKey(encrypted, profileId), legacy |-> FALSE,
          decoder |-> "aes"]
    ELSE [key |-> decryptLegacyKey(encrypted), legacy |-> decryptLegacyKey(encrypted) # NULL,
          decoder |-> "legacy"]

(* ----------------------- the cipher, byte by byte ---------------------- *)

\* Texts are sequences of code points, byte strings sequences of 0..255.

\* crypto.getRandomValues(new Uint8Array(12)) and combined.slice(0, 12)
IvLength == 12

RECURSIVE Flatten(_)
Flatten(ss) == IF ss = <<>> THEN <<>> ELSE Head(ss) \o Flatten(Tail(ss))

RECURSIVE Sum(_)
Sum(bs) == IF bs = <<>> THEN 0 ELSE Head(bs) + Sum(Tail(bs))

\* new TextEncoder().encode(text): UTF-8, here for code points below 2048.
TextEncode(text) ==
    Flatten([i \in 1..Len(text) |->
                IF text[i] < 128 THEN <<text[i]>>
                ELSE <<192 + (text[i] \div 64), 128 + (text[i] % 64)>>])

\* A decoder that takes every byte for a character: what the UTF-8 decoder is
\* compared with.
Latin1Decode(bytes) == bytes

\* new TextDecoder().decode(bytes): a lead byte with its continuation byte is
\* one character, a byte that fits nowhere is U+FFFD.
RECURSIVE TextDecode(_)
TextDecode(bytes) ==
    IF bytes = <<>> THEN <<>>
    ELSE IF Head(bytes) < 128 THEN <<Head(bytes)>> \o TextDecode(Tail(bytes))
    ELSE IF /\ Head(bytes) \in 194..223
            /\ Len(bytes) >= 2
            /\ bytes[2] \in 128..191
         THEN <<(Head(bytes) - 192) * 64 + (bytes[2] - 128)>>
                 \o TextDecode(SubSeq(bytes, 3, Len(bytes)))
         ELSE <<65533>> \o TextDecode(Tail(bytes))

\* hexEncode: two lower-case digits per byte, as ASCII.
HexDigit(d) == IF d < 10 THEN 48 + d ELSE 87 + d
hexEncode(bytes) ==
    Flatten([i \in 1..Len(bytes) |-> <<HexDigit(bytes[i] \div 16), HexDigit(bytes[i] % 16)>>])

\* What a step that can throw hands on: the value, or the throw.
Returned(value) == [ok |-> TRUE, value |-> value]
Thrown == [ok |-> FALSE, value |-> <<>>]

\* hexDecode throws on an odd length and on a character that is no hex digit
\* (Junk).
HexValue(c) ==
    CASE c \in 48..57 -> c - 48
      [] c \in 97..102 -> c - 87
      [] c \in 65..70 -> c - 55
      [] OTHER -> Junk
hexDecode(chars) ==
    IF Len(chars) % 2 # 0 \/ \E i \in 1..Len(chars) : HexValue(chars[i]) = Junk
    THEN Thrown
    ELSE Returned([i \in 1..(Len(chars) \div 2) |->
                      16 * HexValue(chars[2 * i - 1]) + HexValue(chars[2 * i])])

\* SHA-256(TextEncoder.encode(encryptionKey + profileId)): the derived key is
\* a function of the concatenated text.
DeriveKey(encryptionKey, profileId) == TextEncode(encryptionKey \o profileId)

\* AES-GCM under (key, iv): a keyed, invertible map of the plaintext bytes
\* followed by a tag over key, iv and plaintext.
Pad(key, iv) == (Sum(key) + Sum(iv)) % 256
Tag(key, iv, plaintext) == (3 * Sum(key) + 5 * Sum(iv) + 7 * Sum(plaintext) + 1) % 256
AesGcmEncrypt(key, iv, plaintext) ==
    [i \in 1..Len(plaintext) |-> (plaintext[i] + Pad(key, iv)) % 256]
       \o <<Tag(key, iv, plaintext)>>

\* crypto.subtle.decrypt throws when the tag does not verify.
AesGcmDecrypt(key, iv, ciphertext) ==
    IF ciphertext = <<>> THEN Thrown
    ELSE LET body == SubSeq(ciphertext, 1, Len(ciphertext) - 1)
             plaintext == [i \in 1..Len(body) |-> (body[i] + 256 - Pad(key, iv)) % 256]
         IN  IF ciphertext[Len(ciphertext)] = Tag(key, iv, plaintext)
             THEN Returned(plaintext)
             ELSE Thrown

\* encryptPrivateKey, as text: hex(iv + ciphertext) under the derived key.
EncryptText(encryptionKey, privateKey, profileId, iv) ==
    TextDecode(hexEncode(iv \o AesGcmEncrypt(DeriveKey(encryptionKey, profileId), iv,
                                             TextEncode(privateKey))))

\* decryptPrivateKey, as text: Thrown where the code catches and returns null.
DecryptText(encryptionKey, encrypted, profileId) ==
    LET decoded == hexDecode(TextEncode(encrypted)) IN
    IF ~decoded.ok THEN Thrown
    ELSE LET combined == decoded.value
             iv == SubSeq(combined, 1, IF Len(combined) < IvLength THEN Len(combined)
                                       ELSE IvLength)
             ciphertext == SubSeq(combined, IvLength + 1, Len(combined))
             plaintext == AesGcmDecrypt(DeriveKey(encryptionKey, profileId), iv, ciphertext)
         IN  IF plaintext.ok THEN Returned(TextDecode(plaintext.value)) ELSE Thrown

(* ------------------------------- state --------------------------------- *)

VARIABLES
    agentAddress,    \* profiles.agent_wallet_address (NULL or an address)
    agentKeyEnc,     \* profiles.agent_wallet_private_key_encrypted
    authorizedAt,    \* profiles.agent_wallet_authorized_at (NULL or 1: a timestamp)
    stampAddr,       \* history: the stored address when authorizedAt was stamped
    lastWrite,       \* history: the kind of the last write to the profile row
    addrWriter,      \* history: the kind of write that stored agentAddress
    nextKey,         \* the key the next generatePrivateKey returns
    walletTx,        \* wallet_transactions rows of the profile, in insertion order
    exFills,         \* exchange: the user's fills, oldest first
    exTransfers,     \* exchange: the user's deposits and withdrawals
    lastRequest,     \* history: the last request sent to the exchange write endpoint
    walletHoldings,  \* wallet_holdings rows of the profile
    walletBalance,   \* wallet_balances row of the profile
    now,             \* the clock Date.now() reads, in milliseconds
    dcaExecutions,   \* dca_executions rows, in insertion order
    applied,         \* history: the last call of a helper, with what it returned
    dcaPlans,        \* dca_plans: plan id -> next_execution_at, and (history) the
                     \* number of orders the exchange took for the plan
    inv              \* the invocations: slot -> local variables

storeVars == <<agentAddress, agentKeyEnc, authorizedAt, stampAddr, lastWrite, addrWriter>>
vars == <<agentAddress, agentKeyEnc, authorizedAt, stampAddr, lastWrite, addrWriter,
          nextKey, walletTx, exFills, exTransfers, lastRequest,
          walletHoldings, walletBalance, now, dcaExecutions, applied, dcaPlans, inv>>
syncVars == <<walletHoldings, walletBalance>>
\* What the handlers of the agent wallet, of the buy and of the sync leave
\* alone: the exchange's transfer history, the clock, the executions log and
\* the record of helper calls.
restVars == <<exTransfers, now, dcaExecutions, applied, dcaPlans>>

\* The plans of the dca_plans table, all active.
PlanIds == {1, 2}

\* No helper has been called.
NotApplied == [fn |-> "none"]

\* A signature is kept as what it commits to: the signing address and the
\* bytes hashed into connectionId (the encoded action, the nonce, the vault
\* marker). Nothing has been signed.
NoSignature == [signer |-> NULL, action |-> <<>>, nonce |-> 0, vaultMarker |-> 0]

\* The local variables of an invocation that has not started.
Idle ==
    [handler |-> "idle", pc |-> "idle",
     \* the profile as first read
     pAddr |-> NULL, pEnc |-> NoCipher, pAuth |-> NULL,
     \* ensureAgentWallet
     privateKey |-> NULL, decoder |-> "none", wAddr |-> NULL, wKey |-> NULL,
     rotated |-> FALSE,
     \* the re-read of the authorization
     reread |-> "none", dbAgentAddress |-> NULL, dbAuthorizedAt |-> NULL,
     \* the request and the market data
     amountUsd |-> 0, quantity |-> 0, slippage |-> 0,
     currentPrice |-> 0, szDecimals |-> 0, minSz |-> 0,
     \* the derived order: amountCrypto = amtN / amtD
     amtN |-> 0, amtD |-> 1, formattedSize |-> 0, formattedPrice |-> 0,
     \* the submission
     spotAssetId |-> 0, sig |-> NoSignature,
     minUsd |-> 0, nonce |-> 0, attempt |-> 0, sent |-> 0, sentNonces |-> <<>>,
     hlMsg |-> "",
     \* the fill and its recording
     filledSize |-> 0, avgPrice |-> 0, orderId |-> <<"none", 0>>, trade |-> 0,
     recAttempt |-> 0, txRecorded |-> FALSE,
     \* sync-hyperliquid
     transactions |-> <<>>, idx |-> 0, balances |-> <<>>, holdings |-> <<>>,
     usdcBalance |-> 0,
     totalValue |-> 0, again |-> FALSE, rowsBefore |-> <<>>, rowsAfter |-> <<>>,
     \* execute-dca: the due plans, and the plans a trade was attempted for
     duePlans |-> <<>>, attempts |-> <<>>, outcome |-> "none",
     \* sync-authorization: the answer of the exchange and when it was read
     extra |-> "none", list |-> <<>>, queriedAt |-> 0,
     \* the client hook that sent the request, if one did (history: whether
     \* the hook started before or after a revocation)
     hook |-> "none",
     \* the response
     status |-> 0, kind |-> "", success |-> FALSE,
     respAddress |-> NULL, respAuthorized |-> FALSE,
     respAmount |-> 0, respPrice |-> 0]

\* A response ends the invocation: Respond(l, status, kind) is the local
\* state with the HTTP status and the kind of the body set.
Respond(l, status, kind) ==
    [l EXCEPT !.pc = "done", !.status = status, !.kind = kind,
              !.success = (kind = "success")]

\* The profile rows a run can start from.  privy-auth stores the legacy
\* encoding with a null authorization; the other rows are what the handlers
\* below leave behind, and an AES text written under an earlier
\* ENCRYPTION_KEY ("mk-old"), which no longer decrypts.
InitialProfiles ==
    {[addr |-> NULL, enc |-> NoCipher, auth |-> NULL]}
    \cup {[addr |-> AddressOf(1), enc |-> encryptLegacy(1), auth |-> a] : a \in {NULL, 1}}
    \cup {[addr |-> AddressOf(1), enc |-> encryptPrivateKey(1, ProfileId), auth |-> a] :
            a \in {NULL, 1}}
    \cup {[addr |-> AddressOf(1),
           enc |-> [scheme |-> "aes", secret |-> 1, mk |-> "mk-old", ctx |-> ProfileId,
                    colon |-> c],
           auth |-> a] : a \in {NULL, 1}, c \in BOOLEAN}

NoRequest == [signer |-> NULL, s |-> 0, p |-> 0, nonce |-> 0, action |-> <<>>,
              signature |-> NoSignature, vaultAddress |-> NULL]
NoBalance == [usdc_balance |-> 0, total_value_usd |-> 0, synced |-> FALSE]

Init ==
    /\ \E p \in InitialProfiles :
          /\ agentAddress = p.addr
          /\ agentKeyEnc = p.enc
          /\ authorizedAt = p.auth
          /\ stampAddr = IF p.auth = NULL THEN NULL ELSE p.addr
    /\ lastWrite = "none"
    /\ addrWriter = "init"
    /\ nextKey = 2
    /\ walletTx = <<>>
    /\ exFills = <<>>
    /\ exTransfers = <<>>
    /\ lastRequest = NoRequest
    /\ walletHoldings = <<>>
    /\ walletBalance = NoBalance
    /\ now = 1
    /\ dcaExecutions = <<>>
    /\ applied = NotApplied
    /\ dcaPlans = [id \in PlanIds |-> [next_execution_at |-> 1, orders |-> 0]]
    /\ inv = [s \in Slots |-> Idle]


(* --------------------------- the profile row --------------------------- *)

Set(s, l) == inv' = [inv EXCEPT ![s] = l]

Loc(s) == inv[s]

At(s, handler, pc) == inv[s].handler = handler /\ inv[s].pc = pc

\* A migration that writes the ciphertext and, like a rotation, a null
\* authorization: what the migration is compared with.
MigrateClearingAuthorization(privateKey) ==
    /\ agentKeyEnc' = encryptPrivateKey(privateKey, ProfileId)
    /\ authorizedAt' = NULL
    /\ lastWrite' = "migrate"
    /\ UNCHANGED <<agentAddress, stampAddr, addrWriter>>

\* update({agent_wallet_private_key_encrypted}): the legacy migration.  Its
\* result is not inspected by either handler.
MigrateUpdate(privateKey) ==
    /\ agentKeyEnc' = encryptPrivateKey(privateKey, ProfileId)
    /\ lastWrite' = "migrate"
    /\ UNCHANGED <<agentAddress, authorizedAt, stampAddr, addrWriter>>

\* spot-buy, rotateAgentWallet: one update of address, ciphertext and a null
\* authorization.
\* A rotation that writes the address and the ciphertext and leaves the
\* authorization as it is: what the rotations are compared with.
RotateKeepingAuthorization(k) ==
    /\ agentAddress' = AddressOf(k)
    /\ agentKeyEnc' = encryptPrivateKey(k, ProfileId)
    /\ lastWrite' = "rotate-spot-buy"
    /\ addrWriter' = "rotate"
    /\ UNCHANGED <<authorizedAt, stampAddr>>

SB_RotateUpdate(k) ==
    /\ agentAddress' = AddressOf(k)
    /\ agentKeyEnc' = encryptPrivateKey(k, ProfileId)
    /\ authorizedAt' = NULL
    /\ stampAddr' = NULL
    /\ lastWrite' = "rotate-spot-buy"
    /\ addrWriter' = "rotate"

\* agent-wallet, get-agent-address, "Rotate agent wallet": the same update.
GA_RotateUpdate(k) ==
    /\ agentAddress' = AddressOf(k)
    /\ agentKeyEnc' = encryptPrivateKey(k, ProfileId)
    /\ authorizedAt' = NULL
    /\ stampAddr' = NULL
    /\ lastWrite' = "rotate-agent-wallet"
    /\ addrWriter' = "rotate"

\* agent-wallet, get-agent-address with no stored address: address and
\* ciphertext only, agent_wallet_authorized_at is not part of the update.
GA_CreateUpdate(k) ==
    /\ agentAddress' = AddressOf(k)
    /\ agentKeyEnc' = encryptPrivateKey(k, ProfileId)
    /\ lastWrite' = "create"
    /\ addrWriter' = "create"
    /\ UNCHANGED <<authorizedAt, stampAddr>>

\* update({agent_wallet_authorized_at: now}).
\* An update that reports success and changes nothing but the history: what
\* the clearing of the authorization is compared with.
ClearNothing ==
    /\ lastWrite' = "clear"
    /\ UNCHANGED <<agentAddress, agentKeyEnc, authorizedAt, stampAddr, addrWriter>>

StampUpdate ==
    /\ authorizedAt' = 1
    /\ stampAddr' = agentAddress
    /\ lastWrite' = "stamp"
    /\ UNCHANGED <<agentAddress, agentKeyEnc, addrWriter>>

\* update({agent_wallet_authorized_at: null}).
ClearUpdate ==
    /\ authorizedAt' = NULL
    /\ stampAddr' = NULL
    /\ lastWrite' = "clear"
    /\ UNCHANGED <<agentAddress, agentKeyEnc, addrWriter>>

(* ------------------- agent-wallet: get-agent-address ------------------- *)

GA_Start(s) ==
    /\ At(s, "idle", "idle")
    /\ Set(s, [Idle EXCEPT !.handler = "get-agent-address", !.pc = "load"])
    /\ UNCHANGED <<storeVars, nextKey, walletTx, exFills, restVars, lastRequest, syncVars>>

\* select(agent_wallet_address, ..._encrypted, ..._authorized_at).single()
GA_Load(s) ==
    /\ At(s, "get-agent-address", "load")
    /\ \/ Set(s, Respond(Loc(s), 500, "store-error"))
       \/ Set(s, [Loc(s) EXCEPT !.pc = "decode", !.pAddr = agentAddress,
                                !.pEnc = agentKeyEnc, !.pAuth = authorizedAt])
    /\ UNCHANGED <<storeVars, nextKey, walletTx, exFills, restVars, lastRequest, syncVars>>

\* The decode of the stored text, with the re-encryption of a legacy text.
GA_Decode(s) ==
    /\ At(s, "get-agent-address", "decode")
    /\ LET l == Loc(s)
           d == IF l.pEnc = NoCipher
                THEN [key |-> NULL, legacy |-> FALSE, decoder |-> "none"]
                ELSE DecodeStored(l.pEnc, ProfileId)
       IN IF l.pAddr = NULL
          THEN /\ Set(s, [l EXCEPT !.pc = "create"])
               /\ UNCHANGED storeVars
          ELSE /\ Set(s, [l EXCEPT !.pc = "validate", !.privateKey = d.key,
                                    !.decoder = d.decoder])
               /\ IF d.legacy THEN MigrateUpdate(d.key) ELSE UNCHANGED storeVars
    /\ UNCHANGED <<nextKey, walletTx, exFills, restVars, lastRequest, syncVars>>

\* privateKeyToAccount(decrypted) against the stored address.
GA_Validate(s) ==
    /\ At(s, "get-agent-address", "validate")
    /\ LET l == Loc(s) IN
       Set(s, CASE l.privateKey = NULL -> [l EXCEPT !.pc = "rotate"]
                [] l.privateKey # NULL /\ ~IsValidKey(l.privateKey) ->
                     Respond(l, 500, "invalid-key")
                [] IsValidKey(l.privateKey) /\ AddressOf(l.privateKey) = l.pAddr ->
                     [Respond(l, 200, "success") EXCEPT
                         !.respAddress = l.pAddr, !.respAuthorized = (l.pAuth # NULL),
                         !.wAddr = l.pAddr, !.wKey = l.privateKey]
                [] OTHER -> [l EXCEPT !.pc = "rotate"])
    /\ UNCHANGED <<storeVars, nextKey, walletTx, exFills, restVars, lastRequest, syncVars>>

GA_Rotate(s) ==
    /\ At(s, "get-agent-address", "rotate")
    /\ nextKey <= MaxKeys
    /\ nextKey' = nextKey + 1
    /\ \/ /\ Set(s, Respond(Loc(s), 500, "store-error"))
          /\ UNCHANGED storeVars
       \/ /\ GA_RotateUpdate(nextKey)
          /\ Set(s, [Respond(Loc(s), 200, "success") EXCEPT
                        !.respAddress = AddressOf(nextKey), !.respAuthorized = FALSE,
                        !.wAddr = AddressOf(nextKey), !.wKey = nextKey, !.rotated = TRUE])
    /\ UNCHANGED <<walletTx, exFills, restVars, lastRequest, syncVars>>

GA_Create(s) ==
    /\ At(s, "get-agent-address", "create")
    /\ nextKey <= MaxKeys
    /\ nextKey' = nextKey + 1
    /\ \/ /\ Set(s, Respond(Loc(s), 500, "store-error"))
          /\ UNCHANGED storeVars
       \/ /\ GA_CreateUpdate(nextKey)
          /\ Set(s, [Respond(Loc(s), 200, "success") EXCEPT
                        !.respAddress = AddressOf(nextKey), !.respAuthorized = FALSE,
                        !.wAddr = AddressOf(nextKey), !.wKey = nextKey])
    /\ UNCHANGED <<walletTx, exFills, restVars, lastRequest, syncVars>>

(* ----------- agent-wallet: register- and revoke-authorization ---------- *)

RA_Start(s) ==
    /\ At(s, "idle", "idle")
    /\ Set(s, [Idle EXCEPT !.handler = "register-authorization", !.pc = "load"])
    /\ UNCHANGED <<storeVars, nextKey, walletTx, exFills, restVars, lastRequest, syncVars>>

\* select(agent_wallet_address): an error or a null address is a 500.
RA_Load(s) ==
    /\ At(s, "register-authorization", "load")
    /\ \/ Set(s, Respond(Loc(s), 500, "store-error"))
       \/ IF agentAddress = NULL
          THEN Set(s, Respond(Loc(s), 500, "no-agent-wallet"))
          ELSE Set(s, [Loc(s) EXCEPT !.pc = "stamp", !.pAddr = agentAddress])
    /\ UNCHANGED <<storeVars, nextKey, walletTx, exFills, restVars, lastRequest, syncVars>>

RA_Stamp(s) ==
    /\ At(s, "register-authorization", "stamp")
    /\ \/ /\ Set(s, Respond(Loc(s), 500, "store-error"))
          /\ UNCHANGED storeVars
       \/ /\ StampUpdate
          /\ Set(s, [Respond(Loc(s), 200, "success") EXCEPT !.respAddress = Loc(s).pAddr])
    /\ UNCHANGED <<nextKey, walletTx, exFills, restVars, lastRequest, syncVars>>

RV_Start(s) ==
    /\ At(s, "idle", "idle")
    /\ Set(s, [Idle EXCEPT !.handler = "revoke-authorization", !.pc = "clear"])
    /\ UNCHANGED <<storeVars, nextKey, walletTx, exFills, restVars, lastRequest, syncVars>>

RV_Clear(s) ==
    /\ At(s, "revoke-authorization", "clear")
    /\ \/ /\ Set(s, Respond(Loc(s), 500, "store-error"))
          /\ UNCHANGED storeVars
       \/ /\ ClearUpdate
          /\ Set(s, Respond(Loc(s), 200, "success"))
    /\ UNCHANGED <<nextKey, walletTx, exFills, restVars, lastRequest, syncVars>>

(* ------------------- agent-wallet: sync-authorization ------------------ *)

\* Number(validUntil) of a text that is no number.
NotFinite == -1

Agent(address, validUntil) == [address |-> address, validUntil |-> validUntil]

\* An address of the exchange's list that is not an agent address of the
\* profile.
OtherAgent == 999

\* The lists the exchange answers with for a user whose stored agent address
\* is addr: empty, the agent with an expiry in the future, with one that has
\* passed, without one (validUntil ?? 0), with one that is no number, other
\* agents only, and the agent after another one.
AgentLists(addr) ==
    {<<>>,
     <<Agent(addr, MaxTime + 1)>>,
     <<Agent(addr, 1)>>,
     <<Agent(addr, 0)>>,
     <<Agent(addr, NotFinite)>>,
     <<Agent(OtherAgent, MaxTime + 1)>>,
     <<Agent(OtherAgent, MaxTime + 1), Agent(addr, MaxTime + 1)>>}

\* list.find(addr === agentAddress && Number.isFinite(vu) && vu > now)
Found(list, agentAddr, dateNow) ==
    \E i \in 1..Len(list) :
        /\ list[i].address = agentAddr
        /\ list[i].validUntil # NotFinite
        /\ list[i].validUntil > dateNow

SA_Start(s) ==
    /\ At(s, "idle", "idle")
    /\ Set(s, [Idle EXCEPT !.handler = "sync-authorization", !.pc = "load"])
    /\ UNCHANGED <<storeVars, nextKey, walletTx, exFills, restVars, lastRequest, syncVars>>

\* select(wallet_address, agent_wallet_address, ...).single(); without a
\* wallet address or an agent address the answer is "not authorized".
SA_Load(s) ==
    /\ At(s, "sync-authorization", "load")
    /\ \/ Set(s, Respond(Loc(s), 500, "store-error"))
       \/ \E hasWallet \in BOOLEAN :
            LET l == [Loc(s) EXCEPT !.pAddr = agentAddress, !.pAuth = authorizedAt] IN
            IF ~hasWallet \/ agentAddress = NULL
            THEN Set(s, Respond(l, 200, "missing-address"))
            ELSE Set(s, [l EXCEPT !.pc = "query"])
    /\ UNCHANGED <<storeVars, nextKey, walletTx, exFills, restVars, lastRequest, syncVars>>

\* fetch(infoUrl, {type: "extraAgents"}), the parsing of the body and the
\* search of the list.  fetch is awaited outside any try block; a body that
\* is no JSON, or no list, counts as the empty list.
SA_Query(s) ==
    /\ At(s, "sync-authorization", "query")
    /\ \/ Set(s, [Respond(Loc(s), 500, "fetch-failed") EXCEPT !.extra = "throws"])
       \/ \E k \in {"non-json", "malformed"} :
            Set(s, [Respond(Loc(s), 200, "agent-not-found") EXCEPT
                       !.extra = k, !.queriedAt = now])
       \/ \E list \in AgentLists(Loc(s).pAddr) :
            LET l == [Loc(s) EXCEPT !.extra = "list", !.list = list, !.queriedAt = now] IN
            IF Found(list, l.pAddr, now)
            THEN Set(s, [l EXCEPT !.pc = "stamp"])
            ELSE Set(s, Respond(l, 200, "agent-not-found"))
    /\ UNCHANGED <<storeVars, nextKey, walletTx, exFills, restVars, lastRequest, syncVars>>

\* "Mark as authorized in our DB"
SA_Stamp(s) ==
    /\ At(s, "sync-authorization", "stamp")
    /\ \/ /\ Set(s, Respond(Loc(s), 500, "store-error"))
          /\ UNCHANGED storeVars
       \/ /\ StampUpdate
          /\ Set(s, [Respond(Loc(s), 200, "success") EXCEPT
                        !.respAddress = Loc(s).pAddr, !.respAuthorized = TRUE])
    /\ UNCHANGED <<nextKey, walletTx, exFills, restVars, lastRequest, syncVars>>

(* ------------------- privy-auth: an existing profile ------------------- *)

\* "Ensure agent wallet exists": address and legacy ciphertext of a fresh key;
\* agent_wallet_authorized_at is not part of the update.
PA_CreateUpdate(k) ==
    /\ agentAddress' = AddressOf(k)
    /\ agentKeyEnc' = encryptLegacy(k)
    /\ lastWrite' = "create-privy-auth"
    /\ addrWriter' = "create"
    /\ UNCHANGED <<authorizedAt, stampAddr>>

\* A login with a verified token for the privy_did of the profile.
PA_Start(s) ==
    /\ At(s, "idle", "idle")
    /\ Set(s, [Idle EXCEPT !.handler = "privy-auth", !.pc = "load"])
    /\ UNCHANGED <<storeVars, nextKey, walletTx, exFills, restVars, lastRequest, syncVars>>

\* select("*").eq("privy_did", ...).maybeSingle()
PA_Load(s) ==
    /\ At(s, "privy-auth", "load")
    /\ Set(s, [Loc(s) EXCEPT !.pc = "wallet", !.pAddr = agentAddress,
                             !.pEnc = agentKeyEnc, !.pAuth = authorizedAt])
    /\ UNCHANGED <<storeVars, nextKey, walletTx, exFills, restVars, lastRequest, syncVars>>

\* The wallet_address branches: the address is set or kept, and for an
\* external wallet that differs from the stored one the authorization is
\* set to null.
PA_Wallet(s) ==
    /\ At(s, "privy-auth", "wallet")
    /\ \/ UNCHANGED storeVars
       \/ ClearUpdate
    /\ Set(s, [Loc(s) EXCEPT !.pc = "agent"])
    /\ UNCHANGED <<nextKey, walletTx, exFills, restVars, lastRequest, syncVars>>

\* !existingProfile.agent_wallet_address && walletAddress: a new agent wallet,
\* stored with the legacy encoding; the result of the update is not inspected.
PA_Agent(s) ==
    /\ At(s, "privy-auth", "agent")
    /\ \E hasWallet \in BOOLEAN :
         IF Loc(s).pAddr = NULL /\ hasWallet
         THEN /\ nextKey <= MaxKeys
              /\ nextKey' = nextKey + 1
              /\ PA_CreateUpdate(nextKey)
              /\ Set(s, [Respond(Loc(s), 200, "success") EXCEPT
                            !.respAddress = AddressOf(nextKey)])
         ELSE /\ UNCHANGED <<storeVars, nextKey>>
              /\ Set(s, [Respond(Loc(s), 200, "success") EXCEPT
                            !.respAddress = Loc(s).pAddr])
    /\ UNCHANGED <<walletTx, exFills, restVars, lastRequest, syncVars>>

\* The response has been sent: the slot is free for the next request.
Return(s) ==
    /\ inv[s].pc = "done"
    /\ Set(s, Idle)
    /\ UNCHANGED <<storeVars, nextKey, walletTx, exFills, restVars, lastRequest, syncVars>>


(* ------------------------------ spot-buy ------------------------------- *)

\* Spot assets use 10000 + spotMeta index
SPOT_ASSET_OFFSET == 10000

\* The id of a perpetual is its index alone: what the spot id is compared with.
PerpAssetId(spotInfo) == spotInfo.index

\* const assetId = SPOT_ASSET_OFFSET + spotInfo.index
SpotAssetId(spotInfo) == SPOT_ASSET_OFFSET + spotInfo.index

\* A metadata field the exchange left out (szDecimals ?? 4, minSz ? .. : ..).
Absent == -1

\* getSpotAssetInfo: the precision and the minimum of the resolved entry, the
\* minimum in SizeUnits.
ResolvedSzDecimals(meta) ==
    IF meta.szDecimals = Absent THEN DefaultSzDecimals ELSE meta.szDecimals

ResolvedMinSz(meta) ==
    IF meta.minSz = Absent
    THEN SizeUnit \div Pow10(ResolvedSzDecimals(meta))
    ELSE meta.minSz

\* formatSize(n/d, szDecimals): toFixed(szDecimals), then parseFloat and
\* toString, which give the shortest decimal text of that number; the text is
\* kept as the number it denotes, in SizeUnits.
formatSize(n, d, szDecimals) ==
    RoundDiv(n * Pow10(szDecimals), d) * (SizeUnit \div Pow10(szDecimals))

\* formatPrice(n/d): toFixed(2), kept in cents.
formatPrice(n, d) == RoundDiv(100 * n, d)

\* hlMsg.toLowerCase().includes("does not exist")
IncludesDoesNotExist(msg) ==
    msg \in {"User or API Wallet 0xabc does not exist.", "Vault Does Not Exist"}

ErrMessages ==
    {"User or API Wallet 0xabc does not exist.", "Vault Does Not Exist",
     "Insufficient spot balance"}

\* quantity !== undefined && quantity > 0
useQuantityMode(l) == l.quantity > 0

\* The quantity before any flooring, as a fraction of whole units: the
\* caller's quantity (given in SizeUnits), or amountUsd / currentPrice.
RawN(l) == IF useQuantityMode(l) THEN l.quantity ELSE l.amountUsd
RawD(l) == IF useQuantityMode(l) THEN SizeUnit ELSE l.currentPrice

\* "Calculate size and limit price": amountCrypto after the USD-mode floor.
DerivedN(l) ==
    IF ~useQuantityMode(l) /\ l.szDecimals = 0 THEN Floor(RawN(l), RawD(l)) ELSE RawN(l)
DerivedD(l) ==
    IF ~useQuantityMode(l) /\ l.szDecimals = 0 THEN 1 ELSE RawD(l)

\* A check against half the minimum: what the minimum check is compared with.
BelowHalfMinimum(l) == 2 * DerivedN(l) * SizeUnit < l.minSz * DerivedD(l)

\* amountCrypto < minSz
BelowMinimum(l) == DerivedN(l) * SizeUnit < l.minSz * DerivedD(l)

\* The checks between the derivation and the signing; the result is the local
\* state after them: a 400 response, or the order ready to be signed.
Validate(l) ==
    LET n == DerivedN(l)
        d == DerivedD(l)
        \* whole-unit assets: Math.floor of a quantity that is no integer
        fn == IF l.szDecimals = 0 /\ n % d # 0 THEN Floor(n, d) ELSE n
        fd == IF l.szDecimals = 0 /\ n % d # 0 THEN 1 ELSE d
        size == formatSize(fn, fd, l.szDecimals)
        price == formatPrice(l.currentPrice * (100 + l.slippage), 100)
        \* minUsd.toFixed(2) of the message, in cents
        minUsd == RoundDiv(100 * l.minSz * l.currentPrice, SizeUnit)
    IN  CASE BelowMinimum(l) ->
               [Respond(l, 400, "order-too-small") EXCEPT !.amtN = n, !.amtD = d,
                                                          !.minUsd = minUsd]
          [] ~BelowMinimum(l) /\ l.szDecimals = 0 /\ n < d ->
               [Respond(l, 400, "less-than-one-unit") EXCEPT !.amtN = n, !.amtD = d]
          [] OTHER ->
               IF size <= 0
               THEN [Respond(l, 400, "zero-size") EXCEPT !.amtN = fn, !.amtD = fd]
               ELSE [l EXCEPT !.pc = "submit", !.amtN = fn, !.amtD = fd,
                              !.formattedSize = size, !.formattedPrice = price]

\* req.json(): "Missing required fields" when neither amount is given.
SB_Start(s, Requests) ==
    /\ At(s, "idle", "idle")
    /\ \E r \in Requests :
         LET l == [Idle EXCEPT !.handler = "spot-buy", !.pc = "load",
                               !.amountUsd = r.amountUsd, !.quantity = r.quantity,
                               !.slippage = r.slippage]
         IN  IF r.amountUsd = 0 /\ r.quantity = 0
             THEN Set(s, Respond(l, 500, "missing-fields"))
             ELSE Set(s, l)
    /\ UNCHANGED <<storeVars, nextKey, walletTx, exFills, restVars, lastRequest, syncVars>>

\* select("*").single(): "Profile not found" on an error.
SB_Load(s) ==
    /\ At(s, "spot-buy", "load")
    /\ \/ Set(s, Respond(Loc(s), 500, "profile-not-found"))
       \/ Set(s, [Loc(s) EXCEPT !.pc = "ensure", !.pAddr = agentAddress,
                                !.pEnc = agentKeyEnc, !.pAuth = authorizedAt])
    /\ UNCHANGED <<storeVars, nextKey, walletTx, exFills, restVars, lastRequest, syncVars>>

\* ensureAgentWallet, first part: decode the stored text, re-encrypt a legacy
\* one; without a stored text and address, rotate.
SB_Ensure(s) ==
    /\ At(s, "spot-buy", "ensure")
    /\ LET l == Loc(s)
           d == DecodeStored(l.pEnc, ProfileId)
       IN IF l.pEnc # NoCipher /\ l.pAddr # NULL
          THEN /\ Set(s, [l EXCEPT !.pc = "validate", !.privateKey = d.key,
                                    !.decoder = d.decoder])
               /\ IF d.legacy THEN MigrateUpdate(d.key) ELSE UNCHANGED storeVars
          ELSE /\ Set(s, [l EXCEPT !.pc = "rotate"])
               /\ UNCHANGED storeVars
    /\ UNCHANGED <<nextKey, walletTx, exFills, restVars, lastRequest, syncVars>>

\* ensureAgentWallet, second part: the derived address against the stored one.
SB_Validate(s) ==
    /\ At(s, "spot-buy", "validate")
    /\ LET l == Loc(s) IN
       Set(s, CASE l.privateKey = NULL -> [l EXCEPT !.pc = "rotate"]
                [] l.privateKey # NULL /\ ~IsValidKey(l.privateKey) ->
                     Respond(l, 500, "invalid-key")
                [] IsValidKey(l.privateKey) /\ AddressOf(l.privateKey) = l.pAddr ->
                     [l EXCEPT !.pc = "reread", !.wAddr = l.pAddr, !.wKey = l.privateKey]
                [] OTHER -> [l EXCEPT !.pc = "rotate"])
    /\ UNCHANGED <<storeVars, nextKey, walletTx, exFills, restVars, lastRequest, syncVars>>

\* rotateAgentWallet
SB_Rotate(s) ==
    /\ At(s, "spot-buy", "rotate")
    /\ nextKey <= MaxKeys
    /\ nextKey' = nextKey + 1
    /\ \/ /\ Set(s, Respond(Loc(s), 500, "store-error"))
          /\ UNCHANGED storeVars
       \/ /\ SB_RotateUpdate(nextKey)
          /\ Set(s, [Loc(s) EXCEPT !.pc = "reread", !.wAddr = AddressOf(nextKey),
                                   !.wKey = nextKey, !.rotated = TRUE])
    /\ UNCHANGED <<walletTx, exFills, restVars, lastRequest, syncVars>>

\* A gate that looks at the address only: what the gate is compared with.
AddressMismatch(dbAuthorizedAt, dbAgentAddress, walletAddress) ==
    \/ dbAgentAddress = NULL
    \/ dbAgentAddress # walletAddress

\* !dbAuthorizedAt || !dbAgentAddress || dbAgentAddress != agentWallet.address
NotAuthorized(dbAuthorizedAt, dbAgentAddress, walletAddress) ==
    \/ dbAuthorizedAt = NULL
    \/ dbAgentAddress = NULL
    \/ dbAgentAddress # walletAddress

\* The re-read of address and authorization after ensureAgentWallet.
SB_Reread(s) ==
    /\ At(s, "spot-buy", "reread")
    /\ \/ Set(s, [Respond(Loc(s), 500, "auth-read-error") EXCEPT !.reread = "error"])
       \/ LET l == [Loc(s) EXCEPT !.reread = "read", !.dbAgentAddress = agentAddress,
                                  !.dbAuthorizedAt = authorizedAt]
          IN  IF NotAuthorized(l.dbAuthorizedAt, l.dbAgentAddress, l.wAddr)
              THEN Set(s, Respond(l, 409, "agent-not-authorized"))
              ELSE Set(s, [l EXCEPT !.pc = "quote"])
    /\ UNCHANGED <<storeVars, nextKey, walletTx, exFills, restVars, lastRequest, syncVars>>

\* An object literal, as its keys with their values in the order written:
\* the order in which JSON.stringify and msgpackEncode emit them.
KeyValue(key, value) == [key |-> key, value |-> value]

\* The order object with its keys sorted: what the literals are compared with.
actionKeysSorted(l) ==
    <<KeyValue("grouping", "na"),
      KeyValue("orders", <<
          <<KeyValue("a", l.spotAssetId), KeyValue("b", TRUE),
            KeyValue("p", l.formattedPrice), KeyValue("r", FALSE),
            KeyValue("s", l.formattedSize),
            KeyValue("t", <<KeyValue("limit", <<KeyValue("tif", "Ioc")>>)>>)>> >>),
      KeyValue("type", "order")>>

\* const actionBody = { type: "order", orders: [{ a, b, p, s, r, t }], grouping: "na" }
actionBody(l) ==
    <<KeyValue("type", "order"),
      KeyValue("orders", <<
          <<KeyValue("a", l.spotAssetId), KeyValue("b", TRUE),
            KeyValue("p", l.formattedPrice), KeyValue("s", l.formattedSize),
            KeyValue("r", FALSE),
            KeyValue("t", <<KeyValue("limit", <<KeyValue("tif", "Ioc")>>)>>)>> >>),
      KeyValue("grouping", "na")>>

\* const actionForSigning = { type: "order", orders: [{ a, b, p, s, r, t }], grouping: "na" }
actionForSigning(l) ==
    <<KeyValue("type", "order"),
      KeyValue("orders", <<
          <<KeyValue("a", l.spotAssetId), KeyValue("b", TRUE),
            KeyValue("p", l.formattedPrice), KeyValue("s", l.formattedSize),
            KeyValue("r", FALSE),
            KeyValue("t", <<KeyValue("limit", <<KeyValue("tif", "Ioc")>>)>>)>> >>),
      KeyValue("grouping", "na")>>

\* signL1ActionWithAgentWallet: the bytes hashed are the encoded action, the
\* nonce and the vault marker (1 with a vault address, 0 without).
signL1ActionWithAgentWallet(privateKey, action, nonce, vaultAddress) ==
    [signer |-> AddressOf(privateKey), action |-> action, nonce |-> nonce,
     vaultMarker |-> IF vaultAddress # NULL THEN 1 ELSE 0]

\* const timestamp = Date.now(); signL1ActionWithAgentWallet({nonce: timestamp})
\* and requestBody.nonce: the order that passed the checks is signed once.
Sign(l, timestamp) ==
    IF l.pc = "submit"
    THEN [l EXCEPT !.nonce = timestamp,
                   !.sig = signL1ActionWithAgentWallet(l.wKey, actionForSigning(l),
                                                       timestamp, NULL)]
    ELSE l

\* The index the listing gives the pair that is bought.
ListedIndex == 107

\* getSpotPrice, getSpotAssetInfo, the derivation of size and limit price,
\* the checks and the signing: no store access in between.
SB_Quote(s, Prices, Metas) ==
    /\ At(s, "spot-buy", "quote")
    /\ \/ \* allMids: no answer, a non-success HTTP status, no price of the asset
          \E k \in {"price-unavailable", "price-http-error"} : Set(s, Respond(Loc(s), 500, k))
       \/ \E p \in Prices :
            \/ \* spotMeta: a non-success HTTP status, no entry of the asset
               \E k \in {"meta-http-error", "asset-not-found"} :
                  Set(s, Respond([Loc(s) EXCEPT !.currentPrice = p], 500, k))
            \/ \E m \in Metas :
                 Set(s, Sign(Validate([Loc(s) EXCEPT !.currentPrice = p,
                                                     !.spotAssetId =
                                                         SpotAssetId([index |-> ListedIndex]),
                                                     !.szDecimals = ResolvedSzDecimals(m),
                                                     !.minSz = ResolvedMinSz(m)]),
                             now))
    /\ UNCHANGED <<storeVars, nextKey, walletTx, exFills, restVars, lastRequest, syncVars>>


(* --------------------- wallet_transactions: the table ------------------- *)

\* The table as it was before the migration: what the constraint is compared
\* with.
NoUniqueConstraint == FALSE

\* ALTER TABLE wallet_transactions ADD CONSTRAINT
\* wallet_transactions_user_tx_hash_unique UNIQUE (user_id, hyperliquid_tx_hash)
HasUniqueConstraint == TRUE

NoHash == <<"none", 0>>

\* All rows belong to the one profile, so the key is the hash; rows with a
\* null hash never conflict.
Conflicts(rows, row) ==
    {i \in 1..Len(rows) : row.hash # NoHash /\ rows[i].hash = row.hash}

\* insert: rejected with a duplicate-key error under the unique constraint.
InsertAccepted(rows, row) == ~HasUniqueConstraint \/ Conflicts(rows, row) = {}

\* upsert(row, onConflict: "user_id,hyperliquid_tx_hash"): the conflicting row
\* is replaced by the new values, otherwise the row is added.
Upsert(rows, row) ==
    IF Conflicts(rows, row) = {}
    THEN Append(rows, row)
    ELSE [i \in 1..Len(rows) |-> IF i \in Conflicts(rows, row) THEN row ELSE rows[i]]

(* ----------------------- spot-buy: the submission ----------------------- *)

\* One lot of an asset, in SizeUnits.
Lot(l) == SizeUnit \div Pow10(l.szDecimals)

\* What the exchange can report as filled for an IOC order: the whole size
\* or one lot less, at the mid price or at the limit price, with the order id
\* or without.  partial: whether the fills other than the plain one (whole
\* size, mid price, order id present) are explored.
FillSizes(l, partial) ==
    {l.formattedSize} \cup {sz \in {l.formattedSize - Lot(l)} : partial /\ sz > 0}
FillPrices(l, partial) ==
    {100 * l.currentPrice} \cup {px \in {l.formattedPrice} : partial}

\* fetchWithRetry(exchangeUrl, ...) and the reading of the answer.
SB_Submit(s, partial) ==
    /\ At(s, "spot-buy", "submit")
    /\ LET l == [Loc(s) EXCEPT !.attempt = @ + 1, !.sent = @ + 1,
                                !.sentNonces = Append(@, Loc(s).nonce)]
           \* requestBody = { action: actionBody, nonce: timestamp, signature: sig,
           \* vaultAddress: null }; signer, s and p are kept beside it
           request == [signer |-> AddressOf(l.wKey), s |-> l.formattedSize,
                       p |-> l.formattedPrice, nonce |-> l.nonce,
                       action |-> actionBody(l), signature |-> l.sig,
                       vaultAddress |-> NULL]
       IN
       /\ lastRequest' = request
       /\ \/ \* fetch throws: retried until MAX_RETRIES attempts are used up
             /\ Set(s, IF l.attempt < MAX_RETRIES THEN l
                       ELSE Respond(l, 500, "network-error"))
             /\ UNCHANGED <<storeVars, walletTx, exFills>>
          \/ \* !response.ok, or a body that is no JSON
             /\ \E k \in {"exchange-http-error", "invalid-response"} :
                  Set(s, Respond(l, 500, k))
             /\ UNCHANGED <<storeVars, walletTx, exFills>>
          \/ \* status "err"
             /\ \E msg \in ErrMessages :
                  Set(s, IF IncludesDoesNotExist(msg)
                         THEN [l EXCEPT !.pc = "clear-authorization", !.hlMsg = msg]
                         ELSE [Respond(l, 502, "exchange-error") EXCEPT !.hlMsg = msg])
             /\ UNCHANGED <<storeVars, walletTx, exFills>>
          \/ \* status "ok": statuses[0].error, or no filled entry
             /\ \E k \in {"order-failed", "not-filled"} : Set(s, Respond(l, 400, k))
             /\ UNCHANGED <<storeVars, walletTx, exFills>>
          \/ \* status "ok" with a filled entry of totalSz 0 or absent
             /\ Set(s, Respond(l, 400, "no-fills"))
             /\ UNCHANGED <<storeVars, walletTx, exFills>>
          \/ \* status "ok" with a filled entry, with or without an oid
             /\ Len(exFills) < MaxOrders
             /\ \E sz \in FillSizes(l, partial), px \in FillPrices(l, partial),
                   withOid \in {TRUE} \cup {b \in {FALSE} : partial} :
                  LET n == Len(exFills) + 1 IN
                  /\ exFills' = Append(exFills, [n |-> n, oid |-> <<"oid", n>>,
                                                 hash |-> <<"hash", n>>, side |-> "B",
                                                 sz |-> sz, px |-> px])
                  /\ Set(s, [l EXCEPT !.pc = "record", !.filledSize = sz, !.avgPrice = px,
                                      !.trade = n,
                                      !.orderId = IF withOid THEN <<"oid", n>>
                                                  ELSE <<"spot", n>>])
             /\ UNCHANGED <<storeVars, walletTx>>
    /\ UNCHANGED <<nextKey, restVars, syncVars>>

\* update({ agent_wallet_authorized_at: null }) and the 409 that follows.
SB_ClearAuth(s) ==
    /\ At(s, "spot-buy", "clear-authorization")
    /\ ClearUpdate
    /\ Set(s, Respond(Loc(s), 409, "agent-not-recognized"))
    /\ UNCHANGED <<nextKey, walletTx, exFills, restVars, lastRequest, syncVars>>

\* A row holding the requested size and the limit price: what the recorded
\* row is compared with.
RequestedRow(l) ==
    [type |-> "buy", amount |-> l.formattedSize, price |-> l.formattedPrice,
     hash |-> l.orderId, trade |-> l.trade, by |-> "spot-buy"]

\* The row spot-buy inserts for a fill; trade and by are history fields.
SpotBuyRow(l) ==
    [type |-> "buy", amount |-> l.filledSize, price |-> l.avgPrice,
     hash |-> l.orderId, trade |-> l.trade, by |-> "spot-buy"]

\* A response that reports the failure of the recording: what the response
\* after a fill is compared with.
SuccessIfRecorded(l) ==
    IF l.txRecorded
    THEN [Respond(l, 200, "success") EXCEPT !.respAmount = l.filledSize,
                                            !.respPrice = l.avgPrice,
                                            !.respAddress = l.wAddr]
    ELSE Respond(l, 500, "record-failed")

\* The response after a confirmed fill.
Success(l) ==
    [Respond(l, 200, "success") EXCEPT !.respAmount = l.filledSize,
                                       !.respPrice = l.avgPrice,
                                       !.respAddress = l.wAddr]

\* One pass of the recording loop: an insert, then success or another attempt.
SB_Record(s) ==
    /\ At(s, "spot-buy", "record")
    /\ LET l == [Loc(s) EXCEPT !.recAttempt = @ + 1] IN
       \/ /\ InsertAccepted(walletTx, SpotBuyRow(l))
          /\ walletTx' = Append(walletTx, SpotBuyRow(l))
          /\ Set(s, Success([l EXCEPT !.txRecorded = TRUE]))
       \/ \* the insert fails
          /\ UNCHANGED walletTx
          /\ Set(s, IF l.recAttempt < RecordAttempts THEN l ELSE Success(l))
       \/ \* the store applies the insert and the answer is lost: txError is set
          /\ InsertAccepted(walletTx, SpotBuyRow(l))
          /\ walletTx' = Append(walletTx, SpotBuyRow(l))
          /\ Set(s, IF l.recAttempt < RecordAttempts THEN l ELSE Success(l))
    /\ UNCHANGED <<storeVars, nextKey, exFills, restVars, lastRequest, syncVars>>


(* ----------------------------- execute-dca ----------------------------- *)

\* dca_executions: status TEXT NOT NULL CHECK (status IN (...))
StatusCheck == {"pending", "success", "failed"}

\* insert into dca_executions: rejected when the check on status fails.
ExecutionAccepted(row) == row.status \in StatusCheck

\* A due plan with its profile: canExecute is the wallet requirement of the
\* loop (an agent address for an external wallet, wallet address and
\* privy_did otherwise).
Plan(id, canExecute) ==
    [id |-> id, amount_usd |-> 100, frequency |-> "daily", canExecute |-> canExecute]

\* .eq("is_active", true).lte("next_execution_at", now): the plans that are
\* due at time t, by id, each joined with its profile; configured says which
\* profiles meet the wallet requirement.
RECURSIVE DuePlans(_, _, _)
DuePlans(ids, t, configured) ==
    IF ids = {} THEN <<>>
    ELSE LET id == CHOOSE i \in ids : \A j \in ids : i <= j IN
         (IF dcaPlans[id].next_execution_at <= t THEN <<Plan(id, id \in configured)>>
          ELSE <<>>) \o DuePlans(ids \ {id}, t, configured)

\* getNextExecutionTime(frequency), in milliseconds after now; a month is at
\* least 28 days.
getNextExecutionTime(frequency) ==
    now + (CASE frequency = "daily" -> 24 * 60 * 60 * 1000
             [] frequency = "weekly" -> 7 * 24 * 60 * 60 * 1000
             [] frequency = "monthly" -> 28 * 24 * 60 * 60 * 1000
             [] OTHER -> 24 * 60 * 60 * 1000)

\* The exchange took an order for the plan (history).
OrderPlaced(id) == dcaPlans' = [dcaPlans EXCEPT ![id].orders = @ + 1]

\* The row of a successful execution, and the row of a failed one.
CompletedRow(plan, amountCrypto, executedPrice, orderId) ==
    [plan_id |-> plan.id, amount_usd |-> plan.amount_usd, amount_crypto |-> amountCrypto,
     price_at_execution |-> executedPrice, status |-> "completed",
     hyperliquid_order_id |-> orderId, error_message |-> ""]

FailedRow(plan, errorMessage) ==
    [plan_id |-> plan.id, amount_usd |-> plan.amount_usd, amount_crypto |-> 0,
     price_at_execution |-> 0, status |-> "failed",
     hyperliquid_order_id |-> <<"none", 0>>, error_message |-> errorMessage]

\* After a plan: the next one, or the response.
NextPlan(l) ==
    IF l.idx < Len(l.duePlans)
    THEN [l EXCEPT !.pc = "plan", !.idx = @ + 1]
    ELSE Respond(l, 200, "success")

DCA_Start(s) ==
    /\ At(s, "idle", "idle")
    /\ Len(dcaExecutions) < MaxExecutions
    /\ Set(s, [Idle EXCEPT !.handler = "execute-dca", !.pc = "plans"])
    /\ UNCHANGED <<storeVars, nextKey, walletTx, exFills, restVars, lastRequest, syncVars>>

\* select from dca_plans where is_active and next_execution_at <= now
DCA_Plans(s) ==
    /\ At(s, "execute-dca", "plans")
    /\ \/ Set(s, Respond(Loc(s), 500, "store-error"))
       \/ \E configured \in SUBSET PlanIds :
             Set(s, NextPlan([Loc(s) EXCEPT !.duePlans = DuePlans(PlanIds, now, configured)]))
    /\ UNCHANGED <<storeVars, nextKey, walletTx, exFills, restVars, lastRequest, syncVars>>

\* One plan of the loop: skipped when the wallet is not configured; otherwise
\* getAssetPrice and executeHyperliquidOrder, which throw or return the order
\* id with the size and the price of the request.
DCA_Plan(s) ==
    /\ At(s, "execute-dca", "plan")
    /\ LET l == Loc(s)
           plan == l.duePlans[l.idx]
           tried == [l EXCEPT !.attempts = Append(@, plan.id), !.currentPrice = 50,
                              !.formattedSize = formatSize(plan.amount_usd, 50, 1)]
       IN  IF ~plan.canExecute
           THEN /\ Set(s, NextPlan(l))
                /\ UNCHANGED <<exFills, dcaPlans>>
           ELSE \/ \* a price or an order that fails
                   /\ \E msg \in {"Failed to fetch prices", "Hyperliquid error"} :
                        Set(s, [tried EXCEPT !.pc = "record-failed", !.hlMsg = msg])
                   /\ UNCHANGED <<exFills, dcaPlans>>
                \/ \* an order accepted and not filled
                   /\ Set(s, [tried EXCEPT !.pc = "record-completed",
                                           !.orderId = <<"dca", plan.id>>])
                   /\ OrderPlaced(plan.id)
                   /\ UNCHANGED exFills
                \/ \* an order accepted and filled
                   /\ Len(exFills) < MaxOrders
                   /\ OrderPlaced(plan.id)
                   /\ LET n == Len(exFills) + 1 IN
                      /\ exFills' = Append(exFills, [n |-> n, oid |-> <<"oid", n>>,
                                                     hash |-> <<"hash", n>>, side |-> "B",
                                                     sz |-> tried.formattedSize,
                                                     px |-> 100 * tried.currentPrice])
                      /\ Set(s, [tried EXCEPT !.pc = "record-completed",
                                              !.orderId = <<"oid", n>>, !.trade = n])
    /\ UNCHANGED <<storeVars, nextKey, walletTx, exTransfers, now, dcaExecutions, applied,
                   lastRequest, syncVars>>

\* "Record execution": the insert, whose error is logged.
DCA_RecordCompleted(s) ==
    /\ At(s, "execute-dca", "record-completed")
    /\ LET l == Loc(s)
           row == CompletedRow(l.duePlans[l.idx], l.formattedSize, l.currentPrice, l.orderId)
       IN  /\ dcaExecutions' = IF ExecutionAccepted(row) THEN Append(dcaExecutions, row)
                               ELSE dcaExecutions
           /\ Set(s, [l EXCEPT !.pc = "advance"])
    /\ UNCHANGED <<storeVars, nextKey, walletTx, exFills, exTransfers, now, lastRequest,
                   syncVars, applied, dcaPlans>>

\* "Update next execution time": the update, whose result is not looked at.
DCA_Advance(s) ==
    /\ At(s, "execute-dca", "advance")
    /\ LET l == Loc(s)
           plan == l.duePlans[l.idx]
       IN  /\ dcaPlans' = [dcaPlans EXCEPT ![plan.id].next_execution_at =
                                               getNextExecutionTime(plan.frequency)]
           /\ Set(s, NextPlan([l EXCEPT !.outcome = "success"]))
    /\ UNCHANGED <<storeVars, nextKey, walletTx, exFills, exTransfers, now, lastRequest,
                   syncVars, applied, dcaExecutions>>

\* "Record failed execution"
DCA_RecordFailed(s) ==
    /\ At(s, "execute-dca", "record-failed")
    /\ LET l == Loc(s)
           row == FailedRow(l.duePlans[l.idx], l.hlMsg)
       IN  /\ dcaExecutions' = IF ExecutionAccepted(row) THEN Append(dcaExecutions, row)
                               ELSE dcaExecutions
           /\ Set(s, NextPlan([l EXCEPT !.outcome = "failed"]))
    /\ UNCHANGED <<storeVars, nextKey, walletTx, exFills, exTransfers, now, lastRequest,
                   syncVars, applied, dcaPlans>>


(* --------------------------- sync-hyperliquid --------------------------- *)

\* spotClearinghouseState answers the handler can meet (totals in whole coins).
Bal(coin, total) == [coin |-> coin, total |-> total]
ExchangeBalances ==
    {<<>>,
     <<Bal("USDC", 50)>>,
     <<Bal("USDC", 50), Bal("HYPE", 2), Bal("PURR", 0)>>,
     <<Bal("USDC", 50), Bal("USDC0", 20), Bal("HYPE", 2)>>}

\* allMids: the price of each coin, 0 where the answer has none.
Coins == {"HYPE", "PURR"}
Mids == [c \in Coins |-> IF c = "HYPE" THEN 30 ELSE 0]
NoMids == [c \in Coins |-> 0]

IsUsdc(b) == b.coin \in {"USDC", "USDC0"}

\* The loop over spotData.balances: the holdings ...
Holdings(balances, prices) ==
    LET kept == SelectSeq(balances, LAMBDA b : b.total > 0 /\ ~IsUsdc(b))
    IN  [i \in 1..Len(kept) |->
            [asset |-> kept[i].coin, amount |-> kept[i].total,
             current_price |-> prices[kept[i].coin],
             value_usd |-> kept[i].total * prices[kept[i].coin]]]

\* ... usdcBalance, assigned at each USDC or USDC0 entry ...
UsdcBalance(balances) ==
    LET usdc == SelectSeq(balances, LAMBDA b : b.total > 0 /\ IsUsdc(b))
    IN  IF usdc = <<>> THEN 0 ELSE usdc[Len(usdc)].total

\* ... and totalValue, the sum over all entries with a positive total.
RECURSIVE TotalValue(_, _)
TotalValue(balances, prices) ==
    IF balances = <<>> THEN 0
    ELSE LET b == Head(balances)
             v == CASE b.total <= 0 -> 0
                    [] b.total > 0 /\ IsUsdc(b) -> b.total
                    [] OTHER -> b.total * prices[b.coin]
         IN  v + TotalValue(Tail(balances), prices)

\* "Process transfers as deposit/withdraw transactions"
TransferTx(transfer) ==
    [type |-> IF transfer.direction = "deposit" THEN "deposit" ELSE "withdraw",
     amount |-> IF transfer.amount # 0 THEN transfer.amount ELSE transfer.usdc,
     price |-> NULL, hash |-> transfer.hash, trade |-> 0, by |-> "sync"]

\* "Process fills as buy/sell transactions": the key is fill.hash.
FillTx(fill) ==
    [type |-> IF fill.side = "B" THEN "buy" ELSE "sell",
     amount |-> fill.sz, price |-> fill.px, hash |-> fill.hash,
     trade |-> fill.n, by |-> "sync"]

Transactions(transfers, fills) ==
    [i \in 1..Len(transfers) |-> TransferTx(transfers[i])]
      \o [i \in 1..Len(fills) |-> FillTx(fills[i])]

\* Every transaction with a hash has its row: what a completed sync of these
\* transactions leaves behind.
Synced(rows, transactions) ==
    \A i \in 1..Len(transactions) :
        transactions[i].hash # NoHash =>
            \E j \in 1..Len(rows) : rows[j] = transactions[i]

\* A step of a sync invocation; the one that ends it with the success response
\* notes the rows it leaves behind (history).
SyncStep(s, l) ==
    IF l.pc = "done" /\ l.status = 200
    THEN Set(s, [l EXCEPT !.rowsAfter = walletTx'])
    ELSE Set(s, l)

\* After the balance upsert, and after each transaction: the next transaction,
\* or the response.
Advance(l) ==
    IF l.idx < Len(l.transactions)
    THEN [l EXCEPT !.pc = "transaction", !.idx = @ + 1]
    ELSE Respond(l, 200, "success")

SY_Start(s) ==
    /\ At(s, "idle", "idle")
    /\ \/ Set(s, Respond([Idle EXCEPT !.handler = "sync-hyperliquid"], 500, "missing-fields"))
       \/ Set(s, [Idle EXCEPT !.handler = "sync-hyperliquid", !.pc = "fetch"])
    /\ UNCHANGED <<storeVars, nextKey, walletTx, exFills, restVars, lastRequest, syncVars>>

\* The four reads of the exchange; only the first one is fatal.
SY_Fetch(s, Balances, Prices) ==
    /\ At(s, "sync-hyperliquid", "fetch")
    /\ \/ Set(s, Respond(Loc(s), 500, "fetch-failed"))
       \/ \E balances \in Balances, prices \in Prices,
             transfers \in {exTransfers, <<>>}, fills \in {exFills, <<>>} :
            LET txs == Transactions(transfers, fills) IN
            Set(s, [Loc(s) EXCEPT
                      !.pc = "clear-holdings",
                      !.balances = balances,
                      !.holdings = Holdings(balances, prices),
                      !.usdcBalance = UsdcBalance(balances),
                      !.totalValue = TotalValue(balances, prices),
                      !.transactions = txs,
                      !.rowsBefore = walletTx,
                      !.again = Synced(walletTx, txs)])
    /\ UNCHANGED <<storeVars, nextKey, walletTx, exFills, restVars, lastRequest, syncVars>>

\* UNIQUE(user_id, asset): an insert of several rows is one statement, stored
\* whole or not at all.
HoldingsAccepted(rows, holdings) ==
    \A i \in 1..Len(rows), j \in 1..Len(holdings) : rows[i].asset # holdings[j].asset

\* delete().eq("user_id", profileId): the result is not inspected, so a delete
\* that fails goes unnoticed.
SY_ClearHoldings(s) ==
    /\ At(s, "sync-hyperliquid", "clear-holdings")
    /\ \/ walletHoldings' = <<>>
       \/ UNCHANGED walletHoldings
    /\ Set(s, [Loc(s) EXCEPT !.pc = IF Len(Loc(s).holdings) > 0 THEN "insert-holdings"
                                    ELSE "balance"])
    /\ UNCHANGED <<storeVars, nextKey, walletTx, exFills, restVars, lastRequest,
                   walletBalance>>

\* insert(holdings): an error (a duplicate key among them) is logged.
SY_InsertHoldings(s) ==
    /\ At(s, "sync-hyperliquid", "insert-holdings")
    /\ \/ /\ HoldingsAccepted(walletHoldings, Loc(s).holdings)
          /\ walletHoldings' = walletHoldings \o Loc(s).holdings
       \/ UNCHANGED walletHoldings
    /\ Set(s, [Loc(s) EXCEPT !.pc = "balance"])
    /\ UNCHANGED <<storeVars, nextKey, walletTx, exFills, restVars, lastRequest,
                   walletBalance>>

\* upsert of the balance row: an error is logged.
SY_Balance(s) ==
    /\ At(s, "sync-hyperliquid", "balance")
    /\ \/ walletBalance' = [usdc_balance |-> Loc(s).usdcBalance,
                            total_value_usd |-> Loc(s).totalValue, synced |-> TRUE]
       \/ UNCHANGED walletBalance
    /\ UNCHANGED walletTx
    /\ SyncStep(s, Advance(Loc(s)))
    /\ UNCHANGED <<storeVars, nextKey, exFills, restVars, lastRequest, walletHoldings>>

\* One transaction of the loop: skipped without a hash, else upserted; a
\* rejected upsert (always, if the table has no such constraint) leads to the
\* fallback insert.
SY_Transaction(s) ==
    /\ At(s, "sync-hyperliquid", "transaction")
    /\ LET l == Loc(s)
           tx == l.transactions[l.idx]
       IN  IF tx.hash = NoHash
           THEN /\ UNCHANGED walletTx
                /\ SyncStep(s, Advance(l))
           ELSE \/ /\ HasUniqueConstraint
                   /\ walletTx' = Upsert(walletTx, tx)
                   /\ SyncStep(s, Advance(l))
                \/ /\ UNCHANGED walletTx
                   /\ SyncStep(s, [l EXCEPT !.pc = "fallback-insert"])
    /\ UNCHANGED <<storeVars, nextKey, exFills, restVars, lastRequest,
                   walletHoldings, walletBalance>>

\* insert(tx) after a rejected upsert; a duplicate-key error is passed over.
SY_FallbackInsert(s) ==
    /\ At(s, "sync-hyperliquid", "fallback-insert")
    /\ LET l == Loc(s)
           tx == l.transactions[l.idx]
       IN  /\ walletTx' = IF InsertAccepted(walletTx, tx) THEN Append(walletTx, tx)
                          ELSE walletTx
           /\ SyncStep(s, Advance(l))
    /\ UNCHANGED <<storeVars, nextKey, exFills, restVars, lastRequest,
                   walletHoldings, walletBalance>>


(* ------------------ spot-buy: the key cipher on texts ------------------ *)

\* The characters of the texts the callers encrypt: '0', 'x', 'f' of a
\* generated key, and ':' and U+00E9 of a text decryptLegacyKey recovered
\* (atob yields characters up to U+00FF).
SecretChars == {48, 120, 102, 58, 233}
SecretTexts == UNION {[1..n -> SecretChars] : n \in 0..MaxSecretLen}
\* Deno.env.get("ENCRYPTION_KEY"), when it is configured
EncryptionKeys == {<<109>>, <<109, 107>>}
\* profile ids
ProfileIds == {<<112, 49>>, <<112, 50>>}
\* crypto.getRandomValues(new Uint8Array(12))
Ivs == {[i \in 1..IvLength |-> 0], [i \in 1..IvLength |-> (17 * i) % 256],
        [i \in 1..IvLength |-> 255]}

\* encryptPrivateKey(privateKey, profileId), the first call of a behaviour
CI_Encrypt ==
    /\ applied = NotApplied
    /\ \E encryptionKey \in EncryptionKeys, privateKey \in SecretTexts,
          profileId \in ProfileIds, iv \in Ivs :
         applied' = [fn |-> "encryptPrivateKey", encryptionKey |-> encryptionKey,
                     privateKey |-> privateKey, sealedFor |-> profileId,
                     encrypted |-> EncryptText(encryptionKey, privateKey, profileId, iv)]
    /\ UNCHANGED <<storeVars, nextKey, walletTx, exFills, exTransfers, lastRequest,
                   syncVars, now, dcaExecutions, dcaPlans, inv>>

\* decryptPrivateKey(encrypted, profileId) of a text encryptPrivateKey returned
CI_Decrypt ==
    /\ applied.fn = "encryptPrivateKey"
    /\ \E profileId \in ProfileIds :
         applied' = [fn |-> "decryptPrivateKey", encryptionKey |-> applied.encryptionKey,
                     privateKey |-> applied.privateKey, sealedFor |-> applied.sealedFor,
                     encrypted |-> applied.encrypted, profileId |-> profileId,
                     decrypted |-> DecryptText(applied.encryptionKey, applied.encrypted,
                                               profileId)]
    /\ UNCHANGED <<storeVars, nextKey, walletTx, exFills, exTransfers, lastRequest,
                   syncVars, now, dcaExecutions, dcaPlans, inv>>

(* --------------------- spot-buy: getSpotAssetInfo ---------------------- *)

\* A name of the listing is [at][base][/quote]: at says whether it starts with
\* '@', quote is empty for a name without '/'.
Name(at, base, quote) == [at |-> at, base |-> base, quote |-> quote]

\* const assetAliases = { 'BTC': ['WBTC', 'BTC'], 'ETH': ['WETH', 'ETH'] }
assetAliases(asset) ==
    CASE asset = "BTC" -> <<"WBTC", "BTC">>
      [] asset = "ETH" -> <<"WETH", "ETH">>
      [] OTHER -> <<>>

\* const searchSymbols = [asset, ...(assetAliases[asset] || [])]
searchSymbols(asset) == <<asset>> \o assetAliases(asset)

\* The predicate of universe.find for one symbol: u.name === sym,
\* u.name === `${sym}/USDC`, cleanBase === sym, u.name === `@${sym}`.
\* cleanBase is u.name.split("/")[0] without a leading '@'.
MatchesSymbol(u, sym) ==
    \/ u.name = Name(FALSE, sym, "")
    \/ u.name = Name(FALSE, sym, "USDC")
    \/ u.name.base = sym
    \/ u.name = Name(TRUE, sym, "")

\* searchSymbols.some(sym => ...)
Matches(u, asset) ==
    \E k \in 1..Len(searchSymbols(asset)) : MatchesSymbol(u, searchSymbols(asset)[k])

\* universe.find(...): the position of the first entry the predicate accepts,
\* 0 when there is none.
FindFirst(universe, asset) ==
    IF \E i \in 1..Len(universe) : Matches(universe[i], asset)
    THEN CHOOSE i \in 1..Len(universe) :
             /\ Matches(universe[i], asset)
             /\ \A j \in 1..(i - 1) : ~Matches(universe[j], asset)
    ELSE 0

\* getSpotAssetInfo on a listing the exchange answered with; found is the
\* position universe.find stopped at (history).
getSpotAssetInfo(asset, universe) ==
    LET found == FindFirst(universe, asset) IN
    IF found = 0
    THEN [ok |-> FALSE, error |-> "not found in spotMeta", found |-> 0]
    ELSE [ok |-> TRUE, assetId |-> SpotAssetId(universe[found]),
          name |-> universe[found].name, found |-> found]

\* The symbols a buy asks for.
Assets == {"BTC", "ETH", "HYPE"}
\* Names the exchange lists.
ListedNames ==
    {Name(FALSE, "BTC", "USDC"), Name(FALSE, "WBTC", "USDC"), Name(FALSE, "HYPE", "USDC"),
     Name(FALSE, "HYPE", "USDT"), Name(FALSE, "HYPE", ""), Name(TRUE, "HYPE", ""),
     Name(FALSE, "PURR", "USDC")}
\* The listings: the index field of an entry is its position from 0, or, in
\* a listing with retired pairs, larger.
Universes ==
    UNION {{[i \in 1..n |-> [name |-> names[i], index |-> i - 1 + gap]] :
               names \in [1..n -> ListedNames], gap \in {0, 5}} : n \in 0..MaxUniverse}

\* getSpotAssetInfo(asset, networkMode), the first call of a behaviour
AS_Resolve ==
    /\ applied = NotApplied
    /\ \E asset \in Assets, universe \in Universes :
         applied' = [fn |-> "getSpotAssetInfo", asset |-> asset, universe |-> universe,
                     result |-> getSpotAssetInfo(asset, universe)]
    /\ UNCHANGED <<storeVars, nextKey, walletTx, exFills, exTransfers, lastRequest,
                   syncVars, now, dcaExecutions, dcaPlans, inv>>

(* --------------------------- fetchWithRetry ----------------------------- *)

\* What one fetch(url, options) can end in: a transport-level exception with
\* its message, or a response with its HTTP status.
Outcomes ==
    {[kind |-> "throws", error |-> e, status |-> 0] :
        e \in {"connection reset", "timed out"}}
        \cup {[kind |-> "response", error |-> "", status |-> st] :
                  st \in {200, 404, 429, 500}}

\* A policy that also retries the answers with a 5xx status: what the catch is
\* compared with.
CaughtOrServerError(outcome) ==
    \/ outcome.kind = "throws"
    \/ outcome.kind = "response" /\ outcome.status >= 500

\* try { return await fetch(...) } catch: only an exception reaches the catch.
Caught(outcome) == outcome.kind = "throws"

\* fetchWithRetry(url, options) is called: lastError = null, attempt = 0.
FR_Call ==
    /\ applied = NotApplied
    /\ applied' = [fn |-> "fetchWithRetry", pc |-> "fetch", attempt |-> 0,
                   retries |-> MAX_RETRIES, lastError |-> "null", outcomes |-> <<>>,
                   result |-> [kind |-> "none", error |-> "", status |-> 0]]
    /\ UNCHANGED <<storeVars, nextKey, walletTx, exFills, exTransfers, lastRequest,
                   syncVars, now, dcaExecutions, dcaPlans, inv>>

\* One pass of the loop: the fetch, then the return of the response, or the
\* catch, the delay and the next pass, or after the last pass the throw.
FR_Attempt ==
    /\ applied.fn = "fetchWithRetry"
    /\ applied.pc = "fetch"
    /\ applied.attempt < applied.retries
    /\ \E outcome \in Outcomes :
         LET call == [applied EXCEPT !.outcomes = Append(@, outcome)] IN
         applied' =
             IF ~Caught(outcome)
             THEN [call EXCEPT !.pc = "returned", !.result = outcome]
             ELSE IF applied.attempt + 1 < applied.retries
                  THEN [call EXCEPT !.lastError = outcome.error, !.attempt = @ + 1]
                  ELSE [call EXCEPT !.lastError = outcome.error, !.attempt = @ + 1,
                                    !.pc = "thrown",
                                    !.result = [kind |-> "throws", error |-> outcome.error,
                                                status |-> 0]]
    /\ UNCHANGED <<storeVars, nextKey, walletTx, exFills, exTransfers, lastRequest,
                   syncVars, now, dcaExecutions, dcaPlans, inv>>

(* ---------------- agent-wallet: check-authorization; useSpotBuy --------- *)

\* check-authorization: select(...).single(), an error is a 500; isAuthorized
\* says whether agent_wallet_authorized_at is non-null.
CA_Load(s) ==
    /\ At(s, "check-authorization", "load")
    /\ \/ Set(s, Respond(Loc(s), 500, "store-error"))
       \/ Set(s, [Respond(Loc(s), 200, "success") EXCEPT
                     !.respAddress = agentAddress,
                     !.respAuthorized = (authorizedAt # NULL)])
    /\ UNCHANGED <<storeVars, nextKey, walletTx, exFills, restVars, lastRequest, syncVars>>

\* An invocation the hook makes: the request of the handler, marked with the
\* hook's history.
Invoked(handler, hook) == [Idle EXCEPT !.handler = handler, !.pc = "load", !.hook = hook]

\* The answer the hook reads: authErr / syncErr, or data.isAuthorized.
Answered(l, handler) == l.handler = handler /\ l.pc = "done"

\* useSpotBuy, preflight: invoke('agent-wallet', {action: 'check-authorization'}).
HK_Check(s, afterRevoke) ==
    /\ At(s, "idle", "idle")
    /\ Set(s, Invoked("check-authorization",
                      IF afterRevoke THEN "after-revoke" ELSE "before-revoke"))
    /\ UNCHANGED <<storeVars, nextKey, walletTx, exFills, restVars, lastRequest, syncVars>>

\* if (!authData?.isAuthorized) invoke('agent-wallet', {action: 'sync-authorization'})
HK_Sync(s) ==
    /\ Answered(Loc(s), "check-authorization")
    /\ Loc(s).hook # "none"
    /\ Loc(s).status = 200
    /\ ~Loc(s).respAuthorized
    /\ Set(s, Invoked("sync-authorization", Loc(s).hook))
    /\ UNCHANGED <<storeVars, nextKey, walletTx, exFills, restVars, lastRequest, syncVars>>

\* invoke('spot-buy', ...) once either answer said isAuthorized.
HK_Buy(s, Requests) ==
    /\ \/ Answered(Loc(s), "check-authorization")
       \/ Answered(Loc(s), "sync-authorization")
    /\ Loc(s).hook # "none"
    /\ Loc(s).status = 200
    /\ Loc(s).respAuthorized
    /\ \E r \in Requests :
         Set(s, [Invoked("spot-buy", Loc(s).hook) EXCEPT
                    !.amountUsd = r.amountUsd, !.quantity = r.quantity,
                    !.slippage = r.slippage])
    /\ UNCHANGED <<storeVars, nextKey, walletTx, exFills, restVars, lastRequest, syncVars>>

\* throw authErr, throw syncErr, 'Agent wallet not authorized yet', or the end
\* of the buy: the mutation is over.
HK_End(s) ==
    /\ Loc(s).hook # "none"
    /\ Loc(s).pc = "done"
    /\ \/ Loc(s).handler = "spot-buy"
       \/ Loc(s).status # 200
       \/ Loc(s).handler = "sync-authorization" /\ ~Loc(s).respAuthorized
    /\ Set(s, Idle)
    /\ UNCHANGED <<storeVars, nextKey, walletTx, exFills, restVars, lastRequest, syncVars>>

(* ---------------------------- specifications ---------------------------- *)

Request(amountUsd, quantity, slippage) ==
    [amountUsd |-> amountUsd, quantity |-> quantity, slippage |-> slippage]
Meta(szDecimals, minSz) == [szDecimals |-> szDecimals, minSz |-> minSz]

\* One buy of 100 USD at a price of 50 with one size decimal.
PlainRequests == {Request(100, 0, 1)}
PlainPrices == {50}
PlainMetas == {Meta(1, Absent)}

AgentWallet(s) ==
    \/ GA_Start(s) \/ GA_Load(s) \/ GA_Decode(s) \/ GA_Validate(s)
    \/ GA_Rotate(s) \/ GA_Create(s)
    \/ RA_Start(s) \/ RA_Load(s) \/ RA_Stamp(s)
    \/ RV_Start(s) \/ RV_Clear(s)

SpotBuyWallet(s) ==
    \/ SB_Load(s) \/ SB_Ensure(s) \/ SB_Validate(s) \/ SB_Rotate(s) \/ SB_Reread(s)

SpotBuyRecord(s) == SB_ClearAuth(s) \/ SB_Record(s)

\* Agent wallet and authorization: two invocations at a time, the first of
\* spot-buy or agent-wallet, the second of agent-wallet.
Next ==
    \/ SB_Start(1, PlainRequests)
    \/ SpotBuyWallet(1)
    \/ SB_Quote(1, PlainPrices, PlainMetas)
    \/ SB_Submit(1, FALSE)
    \/ SpotBuyRecord(1)
    \/ \E s \in Slots : AgentWallet(s) \/ Return(s)

Spec == Init /\ [][Next]_vars


\* Orders: one invocation of spot-buy at a time.  The first order of a run
\* ranges over both modes, fractional and whole quantities, all kinds of
\* metadata and partial fills; the orders after it are plain.
OrderRequests ==
    {Request(u, 0, 1) : u \in {0, 30, 75, 100}}
      \cup {Request(0, q, 1) : q \in {400, 5000, 15000, 20000}}
      \cup {Request(100, 15000, 1)}
OrderPrices == {20, 50}
OrderMetas ==
    {Meta(sz, m) : sz \in {Absent, 0, 1}, m \in {Absent, 100, 5000, 10000, 20000}}

FirstOrder == exFills = <<>>

NextOrder ==
    \/ SB_Start(1, IF FirstOrder THEN OrderRequests ELSE PlainRequests)
    \/ SpotBuyWallet(1)
    \/ SB_Quote(1, IF FirstOrder THEN OrderPrices ELSE PlainPrices,
                   IF FirstOrder THEN OrderMetas ELSE PlainMetas)
    \/ SB_Submit(1, FirstOrder)
    \/ SpotBuyRecord(1)
    \/ Return(1)

SpecOrder == Init /\ [][NextOrder]_vars

\* The exchange's history of transfers grows outside the program.
EX_Transfer ==
    /\ Len(exTransfers) < MaxTransfers
    /\ \E transfer \in {[direction |-> "deposit", usdc |-> 100, amount |-> 0,
                           hash |-> <<"transfer", Len(exTransfers) + 1>>],
                          [direction |-> "withdraw", usdc |-> 40, amount |-> 0,
                           hash |-> NoHash]} :
         exTransfers' = Append(exTransfers, transfer)
    /\ UNCHANGED <<storeVars, nextKey, walletTx, exFills, lastRequest, syncVars, inv, now,
                   dcaExecutions, applied, dcaPlans>>

\* One answer of the exchange about the balances, with prices.
PlainBalances == {<<Bal("USDC", 50), Bal("HYPE", 2)>>}
PlainMids == {Mids}

SyncHyperliquid(s) ==
    \/ SY_Start(s) \/ SY_Fetch(s, PlainBalances, PlainMids)
    \/ SY_ClearHoldings(s) \/ SY_InsertHoldings(s) \/ SY_Balance(s)
    \/ SY_Transaction(s) \/ SY_FallbackInsert(s)

\* Reconciliation: one invocation at a time, of spot-buy or sync-hyperliquid.
NextSync ==
    \/ SB_Start(1, PlainRequests)
    \/ SpotBuyWallet(1)
    \/ SB_Quote(1, PlainPrices, PlainMetas)
    \/ SB_Submit(1, FALSE)
    \/ SpotBuyRecord(1)
    \/ SyncHyperliquid(1)
    \/ EX_Transfer
    \/ Return(1)

SpecSync == Init /\ [][NextSync]_vars


GetAgentAddress(s) ==
    \/ GA_Start(s) \/ GA_Load(s) \/ GA_Decode(s) \/ GA_Validate(s)
    \/ GA_Rotate(s) \/ GA_Create(s)

PrivyAuth(s) == PA_Start(s) \/ PA_Load(s) \/ PA_Wallet(s) \/ PA_Agent(s)

\* The agent wallet of a profile: a buy in the first invocation, and in the
\* second one get-agent-address or a login.
NextEnsure ==
    \/ SB_Start(1, PlainRequests)
    \/ SpotBuyWallet(1)
    \/ SB_Quote(1, PlainPrices, PlainMetas)
    \/ SB_Submit(1, FALSE)
    \/ SpotBuyRecord(1)
    \/ GetAgentAddress(2)
    \/ PrivyAuth(2)
    \/ \E s \in Slots : Return(s)

SpecEnsure == Init /\ [][NextEnsure]_vars


\* A millisecond passes.
Tick ==
    /\ now < MaxTime
    /\ now' = now + 1
    /\ UNCHANGED <<storeVars, nextKey, walletTx, exFills, exTransfers, lastRequest,
                   syncVars, inv, dcaExecutions, applied, dcaPlans>>

SpotBuy(s) ==
    \/ SB_Start(s, PlainRequests)
    \/ SpotBuyWallet(s)
    \/ SB_Quote(s, PlainPrices, PlainMetas)
    \/ SB_Submit(s, FALSE)
    \/ SpotBuyRecord(s)

\* Nonces: two buys for the profile at a time, and the clock.
NextNonce ==
    \/ \E s \in Slots : SpotBuy(s) \/ Return(s)
    \/ Tick

SpecNonce == Init /\ [][NextNonce]_vars


SyncAuthorization(s) == SA_Start(s) \/ SA_Load(s) \/ SA_Query(s) \/ SA_Stamp(s)

\* The authorization as the exchange reports it: sync-authorization in the
\* first invocation, get-agent-address or a revocation in the second, and the
\* clock.
NextAuthorization ==
    \/ SyncAuthorization(1)
    \/ GetAgentAddress(2)
    \/ RV_Start(2) \/ RV_Clear(2)
    \/ \E s \in Slots : Return(s)
    \/ Tick

SpecAuthorization == Init /\ [][NextAuthorization]_vars


ExecuteDca(s) ==
    \/ DCA_Start(s) \/ DCA_Plans(s) \/ DCA_Plan(s)
    \/ DCA_RecordCompleted(s) \/ DCA_Advance(s) \/ DCA_RecordFailed(s)

\* The scheduled sweep, one at a time.
NextDca ==
    \/ ExecuteDca(1)
    \/ Return(1)

SpecDca == Init /\ [][NextDca]_vars


\* The cipher applied to texts: encrypt, then decrypt what came back.
NextCipher ==
    \/ CI_Encrypt
    \/ CI_Decrypt

SpecCipher == Init /\ [][NextCipher]_vars

\* The resolution of a symbol against a listing.
NextAsset ==
    \/ AS_Resolve

SpecAsset == Init /\ [][NextAsset]_vars

\* One call of fetchWithRetry against every course the network can take.
NextFetch ==
    \/ FR_Call
    \/ FR_Attempt

SpecFetch == Init /\ [][NextFetch]_vars

\* Limit prices: one buy at a time, over the slippage values a request can
\* carry (the body is not validated beyond the presence of the amounts).
PriceRequests == {Request(100, 0, sl) : sl \in {-5, 0, 1, 3}}
PricePrices == {20, 50}

NextPrice ==
    \/ SB_Start(1, PriceRequests)
    \/ SpotBuyWallet(1)
    \/ SB_Quote(1, PricePrices, PlainMetas)
    \/ SB_Submit(1, FALSE)
    \/ SpotBuyRecord(1)
    \/ Return(1)

SpecPrice == Init /\ [][NextPrice]_vars

\* Two sweeps of execute-dca that can overlap in time.
NextSweep ==
    \/ \E s \in Slots : ExecuteDca(s) \/ Return(s)

SpecSweep == Init /\ [][NextSweep]_vars

\* The revocation has succeeded: its answer stays in the second slot.
Revoked ==
    /\ inv[2].handler = "revoke-authorization"
    /\ inv[2].pc = "done"
    /\ inv[2].status = 200

\* The user revokes once and does not approve again; buys go through the hook.
UseSpotBuy(s) ==
    \/ HK_Check(s, Revoked) \/ HK_Sync(s) \/ HK_Buy(s, PlainRequests) \/ HK_End(s)
    \/ CA_Load(s)
    \/ SA_Load(s) \/ SA_Query(s) \/ SA_Stamp(s)
    \/ SpotBuyWallet(s)
    \/ SB_Quote(s, PlainPrices, PlainMetas)
    \/ SB_Submit(s, FALSE)
    \/ SpotBuyRecord(s)

NextRevoke ==
    \/ UseSpotBuy(1)
    \/ RV_Start(2)
    \/ RV_Clear(2)

SpecRevoke == Init /\ [][NextRevoke]_vars

\* Holdings: two sync-hyperliquid invocations for the same user, of an account
\* without transfers or fills; the exchange's answers differ between them.
NextHoldings ==
    \E s \in Slots :
        \/ SY_Start(s)
        \/ SY_Fetch(s, ExchangeBalances, {Mids, NoMids})
        \/ SY_ClearHoldings(s)
        \/ SY_InsertHoldings(s)
        \/ SY_Balance(s)
        \/ Return(s)

SpecHoldings == Init /\ [][NextHoldings]_vars

(* ------------------------------ properties ------------------------------ *)

Rotations == {"rotate-spot-buy", "rotate-agent-wallet"}

\* C1: a rotation writes the new address, the ciphertext of the new key and a
\* null authorization in one update: right after a rotation the authorization
\* is null and the stored address is the address of the stored key; and an
\* authorization that is set while the stored address comes from a rotation
\* was stamped for that address, never for the one the rotation replaced.
C1_RotationClearsAuthorization ==
    /\ lastWrite \in Rotations =>
          /\ authorizedAt = NULL
          /\ IsValidKey(decryptPrivateKey(agentKeyEnc, ProfileId))
          /\ agentAddress = AddressOf(decryptPrivateKey(agentKeyEnc, ProfileId))
    /\ (authorizedAt # NULL /\ addrWriter = "rotate") => stampAddr = agentAddress

\* A rotation of a profile that was authorized has just been written.
C1_Witness ==
    /\ lastWrite \in Rotations
    /\ \E s \in Slots : inv[s].rotated /\ inv[s].pAuth # NULL /\ inv[s].pAddr # NULL
                        /\ agentAddress = inv[s].wAddr

\* What the re-read of spot-buy showed: the authorization set, and the stored
\* address that of the signing key.
GateOpen(l) ==
    /\ l.reread = "read"
    /\ l.dbAuthorizedAt # NULL
    /\ l.dbAgentAddress = AddressOf(l.wKey)

Usable(enc, addr) ==
    /\ IsValidKey(DecodeStored(enc, ProfileId).key)
    /\ AddressOf(DecodeStored(enc, ProfileId).key) = addr

\* C3: a stored key that cannot be decrypted, or whose address is not the
\* stored address, always leads to a rotation: once spot-buy's
\* ensureAgentWallet or get-agent-address has decided, the invocation is
\* rotating, has rotated, or has failed on the write of the rotation.
C3_UnusableKeyLeadsToRotation ==
    \A s \in Slots :
        (/\ inv[s].handler \in {"spot-buy", "get-agent-address"}
         /\ inv[s].pc \notin {"load", "ensure", "decode", "validate"}
         /\ inv[s].pAddr # NULL
         /\ inv[s].pEnc # NoCipher
         /\ ~Usable(inv[s].pEnc, inv[s].pAddr))
        => \/ inv[s].pc = "rotate"
           \/ inv[s].rotated
           \/ inv[s].kind = "store-error"

\* The steps of spot-buy after an answer with status "err".
AfterErr(s) ==
    /\ inv[s].handler = "spot-buy"
    /\ inv[s].pc = "submit"
    /\ inv'[s].hlMsg # ""

Cleared(s) ==
    /\ inv[s].handler = "spot-buy"
    /\ inv[s].pc = "clear-authorization"
    /\ inv'[s] # inv[s]

Quoted(l) == l.handler = "spot-buy" /\ l.minSz > 0

\* The quantity of l before any flooring, n / d of a whole unit: the caller's
\* quantity, or amountUsd / currentPrice.
QuantityN(l) == IF l.quantity > 0 THEN l.quantity ELSE l.amountUsd
QuantityD(l) == IF l.quantity > 0 THEN 10000 ELSE l.currentPrice

\* C4: a buy, in USD mode or in quantity mode, whose derived quantity is
\* below the resolved minimum ends with the 400 response "order too small",
\* which cites the minimum in USD, and has sent nothing to the exchange; the
\* same holds of the quantity as floored for a whole-unit asset in USD mode.
C4_BelowMinimumIsRejected ==
    \A s \in Slots :
        LET l == inv[s]
            whole == l.szDecimals = 0 /\ l.quantity = 0
            n == IF whole THEN QuantityN(l) \div QuantityD(l) ELSE QuantityN(l)
            d == IF whole THEN 1 ELSE QuantityD(l)
        IN  (Quoted(l) /\ (QuantityN(l) * 10000 < l.minSz * QuantityD(l)
                             \/ n * 10000 < l.minSz * d)) =>
                /\ l.pc = "done"
                /\ l.status = 400
                /\ l.kind = "order-too-small"
                /\ 20000 * l.minUsd <= 200 * l.minSz * l.currentPrice + 10000
                /\ 20000 * l.minUsd > 200 * l.minSz * l.currentPrice - 10000
                /\ l.sent = 0

\* A buy in USD mode of less than the minimum was rejected as too small.
C4_Witness ==
    \E s \in Slots :
        /\ Quoted(inv[s])
        /\ inv[s].kind = "order-too-small"
        /\ inv[s].quantity = 0
        /\ inv[s].amountUsd * 10000 < inv[s].minSz * inv[s].currentPrice

\* C5: for an asset with szDecimals 0 the size sent to the exchange is the
\* floor of the derived quantity and at least 1, in both modes; a quantity
\* whose floor is 0 ends the buy with a 400 response before anything is sent.
C5_WholeUnitsAreFloored ==
    \A s \in Slots :
        LET l == inv[s]
            floor == QuantityN(l) \div QuantityD(l)
        IN  (Quoted(l) /\ l.szDecimals = 0) =>
                /\ (l.sent > 0 \/ l.pc \in {"submit", "clear-authorization", "record"}) =>
                      (floor >= 1 /\ l.formattedSize = floor * 10000)
                /\ l.sent > 0 => lastRequest.s = floor * 10000
                /\ floor = 0 => (l.pc = "done" /\ l.status = 400 /\ l.sent = 0)

\* A fractional quantity of a whole-unit asset was sent, floored, in quantity
\* mode.
C5_Witness ==
    \E s \in Slots :
        /\ Quoted(inv[s])
        /\ inv[s].szDecimals = 0
        /\ inv[s].quantity = 15000
        /\ inv[s].sent > 0
        /\ lastRequest.s = 10000


\* The fill the exchange reported for trade n.
FillOf(n) == exFills[n]

\* C7: a row written by spot-buy stands for a fill the exchange reported with
\* a size above 0, and holds the filled size and the average price of that
\* fill, not the size and limit price of the request; an answer without a
\* filled entry, or with a filled size of 0, ends in a 400 response with no
\* insert attempted.
C7_RowsHoldTheFill ==
    /\ \A i \in 1..Len(walletTx) :
          walletTx[i].by = "spot-buy" =>
              /\ walletTx[i].trade \in 1..Len(exFills)
              /\ FillOf(walletTx[i].trade).sz > 0
              /\ walletTx[i].amount = FillOf(walletTx[i].trade).sz
              /\ walletTx[i].price = FillOf(walletTx[i].trade).px
              /\ walletTx[i].type = "buy"
    /\ \A s \in Slots :
          /\ (inv[s].handler = "spot-buy" /\ inv[s].recAttempt > 0) =>
                (inv[s].filledSize > 0 /\ inv[s].sent > 0)
          /\ inv[s].kind \in {"order-failed", "not-filled", "no-fills"} =>
                /\ inv[s].status = 400
                /\ ~inv[s].success
                /\ inv[s].recAttempt = 0
                /\ ~inv[s].txRecorded
    /\ Cardinality({i \in 1..Len(walletTx) : walletTx[i].by = "spot-buy"}) <= Len(exFills)

\* A partial fill at a price other than the limit price has been recorded.
C7_Witness ==
    \E s \in Slots :
        /\ inv[s].txRecorded
        /\ inv[s].filledSize < inv[s].formattedSize
        /\ inv[s].avgPrice # inv[s].formattedPrice
        /\ \E i \in 1..Len(walletTx) :
              walletTx[i].trade = inv[s].trade /\ walletTx[i].amount = inv[s].filledSize

\* C8: once the exchange has reported a fill of a size above 0, spot-buy
\* answers success with the filled size and average price whatever becomes of
\* the insert: the insert is attempted at most 3 times, and after 3 failed
\* attempts the response is still the success response.
C8_SuccessWhateverTheRecording ==
    \A s \in Slots :
        (inv[s].handler = "spot-buy" /\ inv[s].filledSize > 0) =>
            /\ inv[s].recAttempt <= 3
            /\ inv[s].pc \in {"record", "done"}
            /\ inv[s].pc = "record" => (inv[s].recAttempt < 3 /\ ~inv[s].txRecorded)
            /\ inv[s].pc = "done" =>
                  /\ inv[s].status = 200
                  /\ inv[s].success
                  /\ inv[s].respAmount = FillOf(inv[s].trade).sz
                  /\ inv[s].respPrice = FillOf(inv[s].trade).px
                  /\ inv[s].txRecorded \/ inv[s].recAttempt = 3

\* All three inserts failed and the response is the success response.
C8_Witness ==
    \E s \in Slots :
        /\ inv[s].filledSize > 0
        /\ inv[s].recAttempt = 3
        /\ ~inv[s].txRecorded
        /\ inv[s].success

C10_TradeStoredOnce ==
    \A s \in Slots :
        (inv[s].handler = "sync-hyperliquid" /\ inv[s].pc = "done" /\ inv[s].status = 200) =>
            \A i \in 1..Len(inv[s].transactions), j \in 1..Len(inv[s].rowsBefore) :
                (/\ inv[s].transactions[i].trade > 0
                 /\ inv[s].rowsBefore[j].by = "spot-buy"
                 /\ inv[s].rowsBefore[j].trade = inv[s].transactions[i].trade)
                => /\ Cardinality({k \in 1..Len(inv[s].rowsAfter) :
                          inv[s].rowsAfter[k].trade = inv[s].transactions[i].trade}) = 1
                   /\ inv[s].rowsAfter[j] = inv[s].rowsBefore[j]

\* An execution of ensure() is between its read of the profile and its return.
Ensuring(l) ==
    \/ l.handler = "spot-buy" /\ l.pc \in {"load", "ensure", "validate", "rotate"}
    \/ l.handler = "get-agent-address" /\ l.pc # "done"

\* ensure() has returned, or has ended the invocation with an error.
Ensured(l) ==
    /\ l.handler \in {"spot-buy", "get-agent-address"}
    /\ l.kind \notin {"missing-fields", "profile-not-found"}
    /\ ~Ensuring(l)

\* C11: once the executions of ensure() on the profile (ensureAgentWallet of a
\* buy and get-agent-address, with their legacy re-encryption) have all
\* finished, the stored address is the address of the key inside the stored
\* ciphertext.
C11_PairConsistentAfterEnsure ==
    (/\ \A s \in Slots : Ensured(inv[s])
     /\ agentAddress # NULL)
    => /\ IsValidKey(agentKeyEnc.secret)
       /\ AddressOf(agentKeyEnc.secret) = agentAddress

\* The text encryptPrivateKey produces for this profile under the current
\* ENCRYPTION_KEY.
NewScheme(enc) == enc.scheme = "aes" /\ enc.mk = "mk-current" /\ enc.ctx = "p1"

\* The step of s that decodes the stored text it has read.
Decodes(s) ==
    /\ \/ inv[s].handler = "spot-buy" /\ inv[s].pc = "ensure"
       \/ inv[s].handler = "get-agent-address" /\ inv[s].pc = "decode"
    /\ inv[s].pAddr # NULL
    /\ inv'[s] # inv[s]

C13_RetryCarriesNewNonce ==
    \A s \in Slots :
        \A i, j \in 1..Len(inv[s].sentNonces) :
            i # j => inv[s].sentNonces[i] # inv[s].sentNonces[j]

\* C14: two buys that have signed an order with the key of the same agent
\* address have signed it with different nonces.
C14_NoncesAreUnique ==
    \A s, t \in Slots :
        (/\ s # t
         /\ inv[s].nonce # 0
         /\ inv[t].nonce # 0
         /\ inv[s].wAddr = inv[t].wAddr)
        => inv[s].nonce # inv[t].nonce

\* C15: sync-authorization writes the authorization only after an answer of
\* the exchange whose list holds the agent address of the profile with an
\* expiry later than the time of the query; and a query that fails (the fetch
\* throws, the body is no JSON or no list) ends in the answer "not
\* authorized" with status 200, not in an error response.
C15_SyncAuthorization ==
    \A s \in Slots :
        LET l == inv[s] IN
        l.handler = "sync-authorization" =>
            /\ (l.pc = "stamp" \/ l.respAuthorized) =>
                  \E i \in 1..Len(l.list) :
                      /\ l.list[i].address = l.pAddr
                      /\ l.list[i].validUntil > l.queriedAt
            /\ l.extra \in {"throws", "non-json", "malformed"} =>
                  /\ l.pc = "done"
                  /\ l.status = 200
                  /\ ~l.respAuthorized
                  /\ l.kind = "agent-not-found"

\* The failures of spot-buy by category.
AuthorizationFailures == {"agent-not-authorized", "agent-not-recognized"}
OrderFailures ==
    {"order-too-small", "less-than-one-unit", "zero-size", "order-failed", "not-filled",
     "no-fills"}
ExchangeFailures ==
    {"exchange-error", "exchange-http-error", "price-http-error", "meta-http-error"}

\* C16: a failure response of spot-buy has status 409 when the authorization
\* of the agent is required, 400 when the order is invalid or was not filled,
\* 502 when the exchange reported an error (status "err", or a non-success
\* HTTP status), and 500 in all other cases only.
C16_StatusByCategory ==
    \A s \in Slots :
        LET l == inv[s] IN
        (l.handler = "spot-buy" /\ l.pc = "done" /\ ~l.success) =>
            /\ l.kind \in AuthorizationFailures <=> l.status = 409
            /\ l.kind \in OrderFailures <=> l.status = 400
            /\ l.kind \in ExchangeFailures <=> l.status = 502
            /\ l.status \in {400, 409, 500, 502}

\* C17: when a sweep has ended, dca_executions holds one row for every plan
\* it attempted a trade for.
C17_EveryAttemptIsRecorded ==
    \A s \in Slots :
        LET l == inv[s] IN
        (l.handler = "execute-dca" /\ l.pc = "done" /\ l.status = 200) =>
            \A i \in 1..Len(l.attempts) :
                \E j \in 1..Len(dcaExecutions) : dcaExecutions[j].plan_id = l.attempts[i]

\* C18: with the master key configured, decrypting under context c the text
\* that encryptPrivateKey returned for secret s and context c gives s back.
C18_RoundTrip ==
    (applied.fn = "decryptPrivateKey" /\ applied.profileId = applied.sealedFor)
        => applied.decrypted = Returned(applied.privateKey)

\* A two-character text with a character outside ASCII came back whole.
C18_Witness ==
    /\ applied.fn = "decryptPrivateKey"
    /\ applied.profileId = applied.sealedFor
    /\ applied.privateKey = <<233, 58>>
    /\ applied.decrypted = Returned(<<233, 58>>)
    /\ Len(applied.encrypted) = 2 * (IvLength + 3 + 1)

\* C19: the asset id of a returned descriptor, less 10000, is the index the
\* listing gives to the entry that was matched for the symbol.
C19_AssetIdIsOffsetPlusIndex ==
    (applied.fn = "getSpotAssetInfo" /\ applied.result.ok)
        => /\ applied.result.found \in 1..Len(applied.universe)
           /\ Matches(applied.universe[applied.result.found], applied.asset)
           /\ applied.result.name = applied.universe[applied.result.found].name
           /\ applied.result.assetId - 10000
                  = applied.universe[applied.result.found].index

\* The second entry of a listing with retired pairs was matched.
C19_Witness ==
    /\ applied.fn = "getSpotAssetInfo"
    /\ applied.result.ok
    /\ applied.asset = "HYPE"
    /\ applied.result.found = 2
    /\ applied.universe[2].index = 6
    /\ applied.result.assetId = 10006

\* The priority of a match: 1 full name, 2 "{symbol}/USDC", 3 base token,
\* 4 alias table, 5 no match.
Priority(u, asset) ==
    CASE u.name = Name(FALSE, asset, "") -> 1
      [] u.name = Name(FALSE, asset, "USDC") -> 2
      [] u.name.base = asset -> 3
      [] Matches(u, asset) -> 4
      [] OTHER -> 5

\* C20: the entry returned has the highest priority among the entries of the
\* listing, whatever their positions, and with no match the call fails with
\* a not-found error.
C20_MatchByPriority ==
    applied.fn = "getSpotAssetInfo"
        => LET universe == applied.universe
               result == applied.result
           IN  IF \A i \in 1..Len(universe) : Priority(universe[i], applied.asset) = 5
               THEN ~result.ok /\ result.error = "not found in spotMeta"
               ELSE /\ result.ok
                    /\ \A i \in 1..Len(universe) :
                          Priority(universe[result.found], applied.asset)
                              <= Priority(universe[i], applied.asset)

\* C21: fetchWithRetry makes a further attempt only after an attempt that
\* ended in a transport-level exception and only while fewer than 3 were
\* made; an HTTP response of any status is returned at once, with no further
\* attempt; after the third transport failure the last error is thrown; no
\* call makes more than 3 requests.
C21_RetryOnlyAfterTransportFailure ==
    applied.fn = "fetchWithRetry"
        => LET n == Len(applied.outcomes) IN
           /\ n <= 3
           /\ \A k \in 1..(n - 1) : applied.outcomes[k].kind = "throws"
           /\ (n > 0 /\ applied.outcomes[n].kind = "response")
                 => /\ applied.pc = "returned"
                    /\ applied.result = applied.outcomes[n]
           /\ (n = 3 /\ applied.outcomes[3].kind = "throws")
                 => /\ applied.pc = "thrown"
                    /\ applied.result = applied.outcomes[3]
           /\ (n < 3 /\ \A k \in 1..n : applied.outcomes[k].kind = "throws")
                 => applied.pc = "fetch"

\* Two transport failures, then an answer with status 500 that was returned.
C21_Witness ==
    /\ applied.fn = "fetchWithRetry"
    /\ Len(applied.outcomes) = 3
    /\ applied.outcomes[1].kind = "throws"
    /\ applied.outcomes[2].kind = "throws"
    /\ applied.outcomes[3].kind = "response"
    /\ applied.outcomes[3].status = 500
    /\ applied.pc = "returned"
    /\ applied.result = applied.outcomes[3]

\* C22: in every submission of spot-buy the action of the request body is
\* the action that was encoded and signed, key by key in the same order, the
\* nonce of the body is the signed nonce, and the null vaultAddress of the
\* body goes with the no-vault marker in the signed bytes.
C22_BodyIsWhatWasSigned ==
    lastRequest # NoRequest
        => /\ lastRequest.action = lastRequest.signature.action
           /\ lastRequest.nonce = lastRequest.signature.nonce
           /\ (lastRequest.vaultAddress = NULL) <=> (lastRequest.signature.vaultMarker = 0)

\* A submission whose order carries the asset id, the price and the size of
\* the buy, in the body and under the signature.
C22_Witness ==
    /\ lastRequest # NoRequest
    /\ lastRequest.signature.signer # NULL
    /\ lastRequest.action[2].key = "orders"
    /\ lastRequest.action[2].value[1][1].value = 10107
    /\ lastRequest.action[2].value[1][4].key = "s"
    /\ lastRequest.action[2].value[1][4].value = lastRequest.s
    /\ lastRequest.signature.action[2].value[1][3].value = lastRequest.p
    /\ lastRequest.signature.nonce = lastRequest.nonce
    /\ lastRequest.p > 0

\* C23: for every buy that reaches the submission, the limit price sent is
\* the mid price times (1 + slippage/100), rounded to 2 decimals, and is not
\* below the mid price fetched for the buy, whatever slippage was accepted.
\* Prices sent are in cents, the mid price in whole dollars.
C23_LimitPriceNotBelowMid ==
    \A s \in Slots :
        (inv[s].handler = "spot-buy" /\ inv[s].sent > 0)
            => /\ lastRequest.p = RoundDiv(inv[s].currentPrice * (100 + inv[s].slippage), 1)
               /\ lastRequest.p >= 100 * inv[s].currentPrice

\* An invocation of register- or sync-authorization that has stamped the
\* authorization: pAddr is the address it read and whose approval it took as
\* confirmed.
Stamped(l) ==
    /\ l.handler \in {"register-authorization", "sync-authorization"}
    /\ l.pc = "done"
    /\ l.status = 200
    /\ l.handler = "sync-authorization" => l.respAuthorized

\* C24: whenever agent_wallet_authorized_at is non-null, the stored agent
\* address is the address whose approval was confirmed: the address stored
\* when the timestamp was written, and, right after the write of register- or
\* sync-authorization, the address that invocation had read.
C24_AuthorizationIsOfStoredAddress ==
    /\ authorizedAt # NULL => agentAddress = stampAddr
    /\ \A s \in Slots :
          (Stamped(inv[s]) /\ lastWrite = "stamp") => agentAddress = inv[s].pAddr

\* C25: a due plan receives at most one exchange order per due date, also
\* when two sweeps overlap.  The plans are due once within the time explored:
\* the next due date is a day or more after the order.
C25_OneOrderPerDueDate ==
    \A id \in PlanIds : dcaPlans[id].orders <= 1

\* C26: once revoke-authorization has succeeded, and while the user has not
\* approved again, a buy the hook starts reaches no submission, and the
\* hook's preflight leaves the authorization null.
C26_RevokedStaysRevoked ==
    inv[1].hook = "after-revoke"
        => /\ authorizedAt = NULL
           /\ inv[1].handler = "spot-buy" => inv[1].sent = 0

\* C27: for one filled order the recording loop of spot-buy leaves at most
\* one wallet_transactions row, also when an insert was applied by the store
\* and reported as an error, and was then tried again.
C27_OneRowPerOrder ==
    \A i, j \in 1..Len(walletTx) :
        (/\ walletTx[i].by = "spot-buy"
         /\ walletTx[j].by = "spot-buy"
         /\ walletTx[i].trade = walletTx[j].trade) => i = j

\* The loop has ended without a reported success after three attempts, the
\* first of which stored the row.
C27_Witness ==
    \E s \in Slots :
        /\ inv[s].handler = "spot-buy"
        /\ inv[s].pc = "done"
        /\ inv[s].recAttempt = 3
        /\ ~inv[s].txRecorded
        /\ \E i \in 1..Len(walletTx) :
              /\ walletTx[i].by = "spot-buy"
              /\ walletTx[i].trade = inv[s].trade
              /\ walletTx[i].hash = inv[s].orderId

\* C28: at the step in which sync-hyperliquid responds success:true, the
\* wallet_holdings rows stored for the user are exactly the holdings listed in
\* the response.
C28_StoredHoldingsAreTheResponse ==
    [][\A s \in Slots :
          (/\ inv[s].pc # "done"
           /\ inv'[s].handler = "sync-hyperliquid"
           /\ inv'[s].pc = "done"
           /\ inv'[s].status = 200)
          => {walletHoldings'[i] : i \in 1..Len(walletHoldings')}
               = {inv'[s].holdings[i] : i \in 1..Len(inv'[s].holdings)}]_vars

\* C29: the balance sync-hyperliquid returns (the one it stored) satisfies
\* total_value_usd = usdc_balance + the sum of value_usd over the returned
\* holdings, usdc_balance being the whole quote-currency balance of the user
\* (the totals of the coins USDC and USDC0 together).
C29_TotalIsUsdcPlusHoldings ==
    \A s \in Slots :
        LET l == inv[s]
            quote == SelectSeq(l.balances, IsUsdc)
        IN  (l.handler = "sync-hyperliquid" /\ l.pc = "done" /\ l.status = 200) =>
               /\ l.totalValue
                    = l.usdcBalance + Sum([i \in 1..Len(l.holdings) |-> l.holdings[i].value_usd])
               /\ l.usdcBalance = Sum([i \in 1..Len(quote) |-> quote[i].total])

\* The step of s that decodes a stored text the AES decoder refuses and the
\* legacy decoder accepts: the step with the migration write.
Migrates(s) ==
    /\ Decodes(s)
    /\ inv[s].pEnc # NoCipher
    /\ decryptPrivateKey(inv[s].pEnc, ProfileId) = NULL
    /\ decryptLegacyKey(inv[s].pEnc) # NULL

\* C30: the legacy-migration write of ensureAgentWallet and of
\* get-agent-address changes the stored ciphertext only: the stored address
\* and authorization are the same before and after it, and the new ciphertext
\* decrypts to the private key the legacy decode produced.
C30_MigrationWritesCiphertextOnly ==
    [][\A s \in Slots :
          Migrates(s) =>
              /\ agentAddress' = agentAddress
              /\ authorizedAt' = authorizedAt
              /\ decryptPrivateKey(agentKeyEnc', ProfileId) = decryptLegacyKey(inv[s].pEnc)
              /\ inv'[s].privateKey = decryptLegacyKey(inv[s].pEnc)]_vars

\* A migration has rewritten the ciphertext of an authorized profile: the
\* handler holds the legacy-decoded key, and the stored text decrypts to it.
C30_Witness ==
    /\ lastWrite = "migrate"
    /\ authorizedAt # NULL
    /\ \E s \in Slots :
          /\ inv[s].handler \in {"spot-buy", "get-agent-address"}
          /\ inv[s].pc = "validate"
          /\ inv[s].decoder = "legacy"
          /\ inv[s].pEnc.scheme = "legacy"
          /\ inv[s].privateKey = decryptPrivateKey(agentKeyEnc, ProfileId)

====
